---- MODULE Spec2Model ----
(***************************************************************************)
(* A model of the voxel world core of jmi2k/ditch: Chunk (storage, nonce), *)
(* the terrain generator, the caching Mesher and the World's chunk table.  *)
(*                                                                         *)
(* Scaling.  The chunk edge of the source is 32 = 2^5; the model's edge is *)
(* 2^EdgeBits, and every 31, 32 and 5 of the source that stands for the    *)
(* mask, the edge and the shift is Mask, Edge and EdgeBits here.           *)
(* Numbers.  TLC's integers are 32-bit signed, so a u32 (the nonce) is     *)
(* kept as two 16-bit limbs <<hi, lo>> with exact arithmetic modulo 2^32.  *)
(* An i32 coordinate is a TLC integer; the bit operations on it are        *)
(* computed bit by bit on the two's complement representation.             *)
(***************************************************************************)
EXTENDS Integers, Sequences, FiniteSets, TLC

VARIABLES
    NONCE,          \* static NONCE: AtomicU32                     (chunk.rs:18)
    loaded_chunks,  \* World::loaded_chunks: position -> Chunk     (world.rs:9)
    cached_meshes,  \* Mesher::cached_meshes: position -> Arc      (chunk.rs:139)
    arcs,           \* the Arc allocations: handle k is arcs[k], a (nonce, vertices, indices)
    MESHING_TIMES,  \* static mut MESHING_TIMES                    (chunk.rs:16)
    tchunk,         \* the chunk each worker thread owns (or NoChunk)
    tpc,            \* each worker thread's position inside Chunk::place
    last,           \* history: the call made last, its arguments and its result
    issued,         \* history: the nonce of every chunk version that was kept
    genlog,         \* history: per position, the voxel contents generate returned
    fuel,           \* number of calls the behaviour may still make
    selected_item,  \* let mut selected_item                        (main.rs:242)
    vertex_buffers, \* WorldRenderer::vertex_buffers: position -> (nonce, vertices, indices)
    keys_pressed,   \* InputHandler::keys_pressed                   (input.rs:63)
    emitted         \* history: the actions handle_window returned, in order

\* the state of the event loop's front end: input handler, selection, renderer
frontend == <<selected_item, vertex_buffers, keys_pressed, emitted>>

vars == <<NONCE, loaded_chunks, cached_meshes, arcs, MESHING_TIMES,
          tchunk, tpc, last, issued, genlog, fuel, frontend>>

---------------------------------------------------------------------------
(* Bounds of the model *)

\* log2 of the chunk edge (the source's chunks have EdgeBits = 5)
EdgeBits == 1
\* number of calls in one behaviour of Spec
MaxSteps == 3
\* number of calls in one behaviour of the one-chunk specification
MaxStepsOneChunk == 6
\* number of steps in one behaviour of the concurrent specification
MaxStepsThreads == 5
\* number of calls in one behaviour of the specification with reads
MaxStepsIndex == 3
\* number of calls in one behaviour of the specification of the World
MaxStepsWorld == 4
\* number of calls in one behaviour of the specification with foreign identifiers
MaxStepsInvalid == 4
\* number of calls in one behaviour of the specification with several packs
MaxStepsPacks == 4
\* number of calls in one behaviour of the specification of the populated World
MaxStepsLoaded == 4

Edge == 2^EdgeBits
Mask == Edge - 1
Axis == 0 .. (Edge - 1)

---------------------------------------------------------------------------
(* let x = v in Body(x), with v computed once *)
Let(v, Body(_)) == CHOOSE r \in {Body(x) : x \in {v}} : TRUE

---------------------------------------------------------------------------
(* u32 arithmetic: AtomicU32, Chunk::nonce *)

LimbBase == 2^16
U32Zero == <<0, 0>>
U32One == <<0, 1>>
\* 2^32 - 1
U32Max == <<LimbBase - 1, LimbBase - 1>>

\* wrapping addition of two u32 (fetch_add wraps around on overflow)
U32Add(a, b) ==
    LET lo == a[2] + b[2]
        hi == a[1] + b[1] + (lo \div LimbBase)
    IN  <<hi % LimbBase, lo % LimbBase>>

U32Less(a, b) == a[1] < b[1] \/ (a[1] = b[1] /\ a[2] < b[2])

U32FromNat(n) == <<n \div LimbBase, n % LimbBase>>

---------------------------------------------------------------------------
(* i32 bit operations (glam IVec3: &, |, <<, >> apply per component) *)

\* a & b on two's complement integers
RECURSIVE BitAnd(_, _)
BitAnd(a, b) ==
    IF a = 0 \/ b = 0 THEN 0
    ELSE IF a = -1 THEN b
    ELSE IF b = -1 THEN a
    ELSE (IF a % 2 = 1 /\ b % 2 = 1 THEN 1 ELSE 0) + 2 * BitAnd(a \div 2, b \div 2)

\* a | b on two's complement integers
RECURSIVE BitOr(_, _)
BitOr(a, b) ==
    IF a = 0 THEN b
    ELSE IF b = 0 THEN a
    ELSE IF a = -1 \/ b = -1 THEN -1
    ELSE (IF a % 2 = 1 \/ b % 2 = 1 THEN 1 ELSE 0) + 2 * BitOr(a \div 2, b \div 2)

\* a << n and a >> n (arithmetic) for coordinates far from the i32 limits
Shl(a, n) == a * 2^n
\* a variant of Shr that rounds towards zero, as a / (1 << n) does
Shr_truncating(a, n) == IF a < 0 THEN -((-a) \div 2^n) ELSE a \div 2^n

\* a >> n on i32: an arithmetic shift, which rounds towards minus infinity
Shr(a, n) == a \div 2^n

IVecAnd(v, m) == <<BitAnd(v[1], m), BitAnd(v[2], m), BitAnd(v[3], m)>>
IVecOr(v, w) == <<BitOr(v[1], w[1]), BitOr(v[2], w[2]), BitOr(v[3], w[3])>>
IVecShl(v, n) == <<Shl(v[1], n), Shl(v[2], n), Shl(v[3], n)>>
IVecAdd(v, w) == <<v[1] + w[1], v[2] + w[2], v[3] + w[3]>>
IVecScale(s, v) == <<s * v[1], s * v[2], s * v[3]>>

---------------------------------------------------------------------------
(* types.rs: Direction, Side, SIDES *)

DIRECTIONS == <<"west", "east", "south", "north", "down", "up">>
SIDES == <<"west", "east", "south", "north", "down", "up", "none">>
Direction == {DIRECTIONS[n] : n \in 1 .. Len(DIRECTIONS)}
Side == {SIDES[n] : n \in 1 .. Len(SIDES)}

\* a variant of opposite that turns to the next direction of the list
opposite_rotating(d) ==
    CASE d = "west" -> "east"
      [] d = "east" -> "south"
      [] d = "south" -> "north"
      [] d = "north" -> "down"
      [] d = "down" -> "up"
      [] d = "up" -> "west"

opposite(d) ==
    CASE d = "west" -> "east"
      [] d = "east" -> "west"
      [] d = "south" -> "north"
      [] d = "north" -> "south"
      [] d = "down" -> "up"
      [] d = "up" -> "down"

\* From<Direction> for IVec3
DirVec(d) ==
    CASE d = "west" -> <<-1, 0, 0>>
      [] d = "east" -> <<1, 0, 0>>
      [] d = "south" -> <<0, -1, 0>>
      [] d = "north" -> <<0, 1, 0>>
      [] d = "down" -> <<0, 0, -1>>
      [] d = "up" -> <<0, 0, 1>>

---------------------------------------------------------------------------
(* assets/mod.rs: Vertex, Quad, Block, Pack *)

Sub3(a, b) == <<a[1] - b[1], a[2] - b[2], a[3] - b[3]>>
Cross3(a, b) == <<a[2] * b[3] - a[3] * b[2], a[3] * b[1] - a[1] * b[3], a[1] * b[2] - a[2] * b[1]>>
AbsInt(n) == IF n < 0 THEN -n ELSE n

\* decompose_part, Meshlet::Cuboid with xyz0 = (0,0,0) and xyz1 = (1,1,1):
\* the three corners (xyz0, xyz1, xyz2) of the face of each direction
CuboidFace(d) ==
    CASE d = "west" -> <<<<0, 1, 0>>, <<0, 0, 0>>, <<0, 0, 1>>>>
      [] d = "east" -> <<<<1, 0, 0>>, <<1, 1, 0>>, <<1, 1, 1>>>>
      [] d = "south" -> <<<<0, 0, 0>>, <<1, 0, 0>>, <<1, 0, 1>>>>
      [] d = "north" -> <<<<1, 1, 0>>, <<0, 1, 0>>, <<0, 1, 1>>>>
      [] d = "down" -> <<<<0, 1, 0>>, <<1, 1, 0>>, <<1, 0, 0>>>>
      [] d = "up" -> <<<<0, 0, 1>>, <<1, 0, 1>>, <<1, 1, 1>>>>

\* open_blocks: the four vertices of a quad.  uv is kept as (tile, corner);
\* shadow is in tenths (1 - 0.2|nx| - 0.4|ny|, unit normals); light is 15.
MakeQuad(corners, tile) ==
    LET xyz0 == corners[1]
        xyz1 == corners[2]
        xyz2 == corners[3]
        xyz3 == Sub3(xyz2, Sub3(xyz1, xyz0))
        normal == Cross3(Sub3(xyz1, xyz0), Sub3(xyz3, xyz0))
        shadow == 10 - 2 * AbsInt(normal[1]) - 4 * AbsInt(normal[2])
        V(p, c) == [xyz |-> p, uv |-> <<tile, c>>, shadow |-> shadow, light |-> 15]
    IN  <<V(xyz0, "u1v0"), V(xyz1, "u0v0"), V(xyz2, "u0v1"), V(xyz3, "u1v1")>>

\* Block::default(): no side culls, no quads (open_blocks' "air")
DefaultBlock ==
    [culls |-> [d \in Direction |-> FALSE], mesh |-> [s \in Side |-> <<>>]]

\* a block file with one full cuboid, every face filed under its own side,
\* culling on every side
CubeBlock(tile) ==
    [culls |-> [d \in Direction |-> TRUE],
     mesh |-> [s \in Side |-> IF s = "none" THEN <<>>
                              ELSE <<MakeQuad(CuboidFace(s), tile)>>]]

\* a block file with one free rectangle (Meshlet::Rect) filed under "none"
\* and a cuboid top face, culling on no side
RectBlock(tile) ==
    [culls |-> [d \in Direction |-> FALSE],
     mesh |-> [s \in Side |->
                 IF s = "none" THEN <<MakeQuad(<<<<0, 0, 0>>, <<1, 0, 0>>, <<1, 0, 1>>>>, tile)>>
                 ELSE IF s = "up" THEN <<MakeQuad(CuboidFace(s), tile)>>
                 ELSE <<>>]]

\* a block file with one cuboid that culls on its down side only; the top
\* face is filed under "none", the other faces under their own side
SlabBlock(tile) ==
    [culls |-> [d \in Direction |-> d = "down"],
     mesh |-> [s \in Side |-> IF s = "none" THEN <<MakeQuad(CuboidFace("up"), tile)>>
                              ELSE IF s = "up" THEN <<>>
                              ELSE <<MakeQuad(CuboidFace(s), tile)>>]]

\* the names of Pack::blocks as open_blocks builds it: "air" first, then one
\* entry per block file (here in name order).  Entry k of the source is
\* entry k + 1 here.
pack_names ==
    <<"air", "bedrock.toml", "cactus.toml", "cobblestone.toml", "dirt.toml",
      "grass.toml", "gravel.toml", "leaves.toml", "obsidian.toml",
      "pumpkin.toml", "sand.toml", "stone.toml", "wood.toml">>

\* the Block open_blocks builds for an entry: Block::default() for "air",
\* the file's parts otherwise
BlockFile(name) ==
    CASE name = "air" -> DefaultBlock
      [] name = "bedrock.toml" -> CubeBlock("bedrock")
      [] name = "cactus.toml" -> RectBlock("cactus")
      [] name = "cobblestone.toml" -> CubeBlock("cobblestone")
      [] name = "dirt.toml" -> CubeBlock("dirt")
      [] name = "grass.toml" -> CubeBlock("grass")
      [] name = "gravel.toml" -> CubeBlock("gravel")
      [] name = "leaves.toml" -> RectBlock("leaves")
      [] name = "obsidian.toml" -> CubeBlock("obsidian")
      [] name = "pumpkin.toml" -> CubeBlock("pumpkin")
      [] name = "sand.toml" -> CubeBlock("sand")
      [] name = "slab.toml" -> SlabBlock("slab")
      [] name = "stone.toml" -> CubeBlock("stone")
      [] name = "wood.toml" -> CubeBlock("wood")

\* pack.blocks[id as usize]
PackBlockIn(pack, id) == BlockFile(pack[id + 1])

\* the same for the pack the program opens
PackBlock(id) == PackBlockIn(pack_names, id)

---------------------------------------------------------------------------
(* chunk.rs: Chunk *)

ZeroContents == [k \in Axis |-> [j \in Axis |-> [i \in Axis |-> 0]]]

\* a variant of IndexCell that saturates at the chunk's faces instead of
\* wrapping
IndexCell_saturating(index) ==
    LET Sat(n) == IF n < 0 THEN 0 ELSE IF n > Mask THEN Mask ELSE n
    IN  <<Sat(index[1]), Sat(index[2]), Sat(index[3])>>

\* Index<IVec3>: index & 31, the cell read
IndexCell(index) == IVecAnd(index, Mask)

\* chunk[index]
Index(chunk, index) ==
    LET c == IndexCell(index) IN chunk.contents[c[3]][c[2]][c[1]]

\* IndexMut<IVec3>: index & 31, the cell handed out for writing
IndexMutCell(index) == IVecAnd(index, Mask)

\* a variant of PlaceCell that takes the axes in storage order (z, y, x)
PlaceCell_swapped(location) ==
    <<BitAnd(location[3], Mask), BitAnd(location[2], Mask), BitAnd(location[1], Mask)>>

\* Chunk::place: location & 31, the cell written
PlaceCell(location) == IVecAnd(location, Mask)

\* contents[z][y][x] = block
WriteCell(contents, c, block) ==
    [contents EXCEPT ![c[3]][c[2]][c[1]] = block]

\* fresh_nonce: NONCE.fetch_add(1, Relaxed) leaves NONCE + 1 (wrapping) and
\* returns the previous value
FetchAddNew(counter) == U32Add(counter, U32One)

\* Chunk::default() given the value fresh_nonce returned
DefaultChunk(nonce) == [nonce |-> nonce, contents |-> ZeroContents]

---------------------------------------------------------------------------
(* chunk.rs: Mesher::build_mesh, the rebuild *)

RECURSIVE Flatten(_)
Flatten(seqs) == IF seqs = <<>> THEN <<>> ELSE Head(seqs) \o Flatten(Tail(seqs))

\* the DirMap "neighbors" of voxel (i, j, k): the same-chunk neighbour's
\* identifier, 0 where the voxel lies on the chunk face
Neighbor(contents, i, j, k, d) ==
    CASE d = "west" -> IF i > 0 THEN contents[k][j][i - 1] ELSE 0
      [] d = "east" -> IF i < Mask THEN contents[k][j][i + 1] ELSE 0
      [] d = "south" -> IF j > 0 THEN contents[k][j - 1][i] ELSE 0
      [] d = "north" -> IF j < Mask THEN contents[k][j + 1][i] ELSE 0
      [] d = "down" -> IF k > 0 THEN contents[k - 1][j][i] ELSE 0
      [] d = "up" -> IF k < Mask THEN contents[k + 1][j][i] ELSE 0

\* a variant of Culled that reads the flag of the side itself
Culled_facing(pack, contents, i, j, k, side) ==
    /\ side # "none"
    /\ PackBlockIn(pack, Neighbor(contents, i, j, k, side)).culls[side]

\* whether the quads of a side are skipped: b.culls[dir.opposite()]
Culled(pack, contents, i, j, k, side) ==
    /\ side # "none"
    /\ PackBlockIn(pack, Neighbor(contents, i, j, k, side)).culls[opposite(side)]

\* the closure of SIDES.into_iter().flat_map: the quads of one side
SideQuads(pack, contents, i, j, k, side) ==
    IF Culled(pack, contents, i, j, k, side) THEN <<>>
    ELSE PackBlockIn(pack, contents[k][j][i]).mesh[side]

\* xyz += (32 x + i, 32 y + j, 32 z + k)
Translate(vertex, position, i, j, k) ==
    [vertex EXCEPT !.xyz = IVecAdd(@, <<Edge * position[1] + i,
                                         Edge * position[2] + j,
                                         Edge * position[3] + k>>)]

\* the vertices one voxel adds
VoxelVertices(pack, contents, position, i, j, k) ==
    LET quads == Flatten([s \in 1 .. Len(SIDES) |-> SideQuads(pack, contents, i, j, k, SIDES[s])])
        flat == Flatten(quads)
    IN  [n \in 1 .. Len(flat) |-> Translate(flat[n], position, i, j, k)]

QUAD_INDICES == <<0, 1, 2, 3, 0, 2>>

\* a variant of VoxelIndices that numbers the vertices of each voxel from 0
VoxelIndices_local(base, num_quads) ==
    [m \in 1 .. (6 * num_quads) |->
        4 * ((m - 1) \div 6) + QUAD_INDICES[((m - 1) % 6) + 1]]

\* (0..num_quads).flat_map(|n| [0, 1, 2, 3, 0, 2].map(|idx| base + 4 n + idx))
VoxelIndices(base, num_quads) ==
    [m \in 1 .. (6 * num_quads) |->
        base + 4 * ((m - 1) \div 6) + QUAD_INDICES[((m - 1) % 6) + 1]]

\* the body of the innermost loop: voxel (i, j, k) appends its vertices and
\* the indices of its quads to the mesh built so far
MeshVoxel(pack, contents, position, i, j, k, mesh) ==
    Let(VoxelVertices(pack, contents, position, i, j, k), LAMBDA added :
        [vertices |-> mesh.vertices \o added,
         indices |-> mesh.indices \o VoxelIndices(Len(mesh.vertices), Len(added) \div 4)])

\* for (i, block) in row
RECURSIVE MeshRow(_, _, _, _, _, _, _)
MeshRow(pack, contents, position, i, j, k, sofar) ==
    Let(sofar, LAMBDA mesh :
        IF i >= Edge THEN mesh
        ELSE MeshRow(pack, contents, position, i + 1, j, k,
                     MeshVoxel(pack, contents, position, i, j, k, mesh)))

\* for (j, row) in layer
RECURSIVE MeshLayer(_, _, _, _, _, _)
MeshLayer(pack, contents, position, j, k, sofar) ==
    Let(sofar, LAMBDA mesh :
        IF j >= Edge THEN mesh
        ELSE MeshLayer(pack, contents, position, j + 1, k,
                       MeshRow(pack, contents, position, 0, j, k, mesh)))

\* for (k, layer) in chunk.contents
RECURSIVE MeshLoop(_, _, _, _, _)
MeshLoop(pack, contents, position, k, sofar) ==
    Let(sofar, LAMBDA mesh :
        IF k >= Edge THEN mesh
        ELSE MeshLoop(pack, contents, position, k + 1,
                      MeshLayer(pack, contents, position, 0, k, mesh)))

\* whether pack.blocks[id as usize] is inside the slice: a negative i16
\* becomes a usize beyond every length
InPackIn(pack, id) == 0 <= id /\ id < Len(pack)

\* the same for the pack the program opens
InPack(id) == InPackIn(pack_names, id)

\* whether the bounds check of pack.blocks[block as usize] fails for a voxel
\* of the chunk (every voxel is visited, and every neighbour is a voxel or 0)
IndexPanicsIn(pack, contents) ==
    \E k \in Axis, j \in Axis, i \in Axis : ~InPackIn(pack, contents[k][j][i])

IndexPanics(contents) == IndexPanicsIn(pack_names, contents)

\* Arc::new((chunk.nonce, vertices, indices))
RebuildMeshIn(pack, chunk, position) ==
    Let(MeshLoop(pack, chunk.contents, position, 0, [vertices |-> <<>>, indices |-> <<>>]),
        LAMBDA m : [nonce |-> chunk.nonce, vertices |-> m.vertices, indices |-> m.indices])

\* a rebuild with the pack the program opens
RebuildMesh(chunk, position) == RebuildMeshIn(pack_names, chunk, position)

\* a variant of CacheHit that never reuses an entry
CacheHit_never(entry_nonce, chunk_nonce) == FALSE

\* the cache test: entry.0 == chunk.nonce
CacheHit(entry_nonce, chunk_nonce) == entry_nonce = chunk_nonce

---------------------------------------------------------------------------
(* chunk.rs: Chunk::generate *)

\* str::cmp on the block names that occur: their place in lexicographic order
NameOrder ==
    <<"air", "bedrock.toml", "cactus.toml", "cobblestone.toml", "dirt.toml",
      "grass.toml", "gravel.toml", "leaves.toml", "obsidian.toml",
      "pumpkin.toml", "sand.toml", "stone.toml", "wood.toml">>
NameRank(name) == CHOOSE r \in 1 .. Len(NameOrder) : NameOrder[r] = name

\* slice::binary_search_by over blocks[left .. right): the index found
\* (0-based), or -1 for Err
RECURSIVE BinarySearch(_, _, _, _)
BinarySearch(names, name, left, right) ==
    IF left >= right THEN -1
    ELSE Let(left + ((right - left) \div 2), LAMBDA mid :
             Let(NameRank(names[mid + 1]) - NameRank(name), LAMBDA cmp :
                 IF cmp < 0 THEN BinarySearch(names, name, mid + 1, right)
                 ELSE IF cmp > 0 THEN BinarySearch(names, name, left, mid)
                 ELSE mid))

\* pack.blocks.binary_search_by(|(n, _)| n.as_str().cmp(name))
Lookup(name) == BinarySearch(pack_names, name, 0, Len(pack_names))

\* the names generate looks up at its start, each with .unwrap()
GenerateNames ==
    <<"air", "bedrock.toml", "cactus.toml", "cobblestone.toml", "dirt.toml",
      "grass.toml", "gravel.toml", "obsidian.toml", "pumpkin.toml",
      "sand.toml", "stone.toml">>

\* a variant of SeedOf that also reads the process-wide counter
SeedOf_counter(location) ==
    2 * location[1] + 3 * location[2] + 5 * location[3] + NONCE[2]

\* (2 * location.x + 3 * location.y + 5 * location.z) as u64
SeedOf(location) == 2 * location[1] + 3 * location[2] + 5 * location[3]

\* rand_xoshiro (an external crate) is stood in for by a small congruential
\* generator: a deterministic stream that depends on the seed alone
RngModulus == 2^16 + 1
RngSeed(seed) == seed % RngModulus
RngNext(state) == (state * 75 + 74) % RngModulus

\* noise::Perlin (an external crate) is stood in for by a fixed function of
\* the generator's seed and the sample point, in thousandths, within [-1, 1]
Perlin(seed, x, y, freq) ==
    (((7 * x + 13 * y) * freq + 500 * seed + 1000) % 2001) - 1000

\* `as i32` of a quotient: truncation toward zero
TruncDiv(a, b) == IF a >= 0 THEN a \div b ELSE -((-a) \div b)

\* h = (val * (max_h - min_h) + min_h) as i32, val in millionths
Remap(val) == TruncDiv(val * (30 - (-30)) + (-30) * 1000000, 1000000)

\* val = val1 + val2 + val3 and the height of the column at (x, y)
Height(x, y) ==
    LET val == 900 * Perlin(1, x, y, 1) + 90 * Perlin(2, x, y, 10) + 9 * Perlin(3, x, y, 100)
    IN  Remap(val)

\* a >> n on usize
ShrU(a, n) == a \div 2^n

\* the ids generate looks up before its loops
GenerateIds ==
    [air |-> Lookup("air"), bedrock |-> Lookup("bedrock.toml"),
     cobblestone |-> Lookup("cobblestone.toml"), dirt |-> Lookup("dirt.toml"),
     grass |-> Lookup("grass.toml"), stone |-> Lookup("stone.toml")]

\* the table the surface block is drawn from
Surface(ids) ==
    <<ids.grass, ids.grass, ids.grass, ids.grass,
      ids.grass, ids.grass, ids.grass, ids.grass,
      ids.grass, ids.grass, ids.grass, ids.grass,
      ids.grass, ids.grass, ids.grass, ids.grass,
      ids.grass, ids.grass, ids.grass, ids.grass,
      ids.grass, ids.grass, ids.grass, ids.grass,
      ids.grass, ids.dirt, ids.grass, ids.dirt,
      ids.grass, ids.air, ids.grass, ids.cobblestone>>

\* the position drawn in the surface table: (rand >> 5) % 16
SurfaceIndex(rand) == ShrU(rand, 5) % 16

\* the block picked for a voxel at world height z in a column of height h
PickBlock(ids, z, h, rand) ==
    IF z = -128 THEN ids.bedrock
    ELSE IF z = -127
         THEN <<ids.stone, ids.cobblestone, ids.bedrock, ids.bedrock>>[(rand % 4) + 1]
    ELSE IF -126 <= z /\ z < h - 9
         THEN <<ids.stone, ids.cobblestone>>[(ShrU(rand, 2) % 2) + 1]
    ELSE IF h - 9 <= z /\ z < h - 4
         THEN <<ids.dirt, ids.dirt, ids.stone, ids.cobblestone>>[(ShrU(rand, 3) % 4) + 1]
    ELSE IF h - 4 <= z /\ z < h THEN ids.dirt
    ELSE IF z = h THEN Surface(ids)[SurfaceIndex(rand) + 1]
    ELSE ids.air

\* a variant of GenerateVoxel that draws a value and writes bedrock for a
\* voxel outside the range before it goes on with the next layer
GenerateVoxel_marking(ids, location, i, j, k, st) ==
    Let(IVecOr(IVecShl(location, EdgeBits), <<i, j, k>>), LAMBDA world :
        Let(RngNext(st.rand), LAMBDA next :
            IF ~(-128 <= world[3] /\ world[3] < 31)
            THEN [rand |-> next,
                  contents |-> WriteCell(st.contents, <<i, j, k>>, ids.bedrock),
                  skip |-> TRUE]
            ELSE [rand |-> next,
                  contents |-> WriteCell(st.contents, <<i, j, k>>,
                                         PickBlock(ids, world[3],
                                                   Height(world[1], world[2]), next)),
                  skip |-> FALSE]))

\* the body of the innermost loop for voxel (i, j, k); st is the generator's
\* state: the random stream, the contents written so far, and whether
\* "continue 'layer" was taken
GenerateVoxel(ids, location, i, j, k, st) ==
    Let(IVecOr(IVecShl(location, EdgeBits), <<i, j, k>>), LAMBDA world :
        IF ~(-128 <= world[3] /\ world[3] < 31)
        THEN [st EXCEPT !.skip = TRUE]
        ELSE Let(RngNext(st.rand), LAMBDA next :
                 [rand |-> next,
                  contents |-> WriteCell(st.contents, <<i, j, k>>,
                                         PickBlock(ids, world[3],
                                                   Height(world[1], world[2]), next)),
                  skip |-> FALSE]))

\* for i in 0..32
RECURSIVE GenerateRow(_, _, _, _, _, _)
GenerateRow(ids, location, i, j, k, state) ==
    Let(state, LAMBDA st :
        IF i >= Edge \/ st.skip THEN st
        ELSE GenerateRow(ids, location, i + 1, j, k,
                         GenerateVoxel(ids, location, i, j, k, st)))

\* for j in 0..32
RECURSIVE GenerateLayer(_, _, _, _, _)
GenerateLayer(ids, location, j, k, state) ==
    Let(state, LAMBDA st :
        IF j >= Edge \/ st.skip THEN st
        ELSE GenerateLayer(ids, location, j + 1, k,
                           GenerateRow(ids, location, 0, j, k, st)))

\* 'layer: for k in 0..32; "continue 'layer" goes on with layer k + 1
RECURSIVE GenerateLoop(_, _, _, _)
GenerateLoop(ids, location, k, state) ==
    Let(state, LAMBDA st :
        IF k >= Edge THEN st
        ELSE GenerateLoop(ids, location, k + 1,
                          [GenerateLayer(ids, location, 0, k, st) EXCEPT !.skip = FALSE]))

\* whether every .unwrap() of the lookups succeeds
GenerateLookupsOk == \A n \in 1 .. Len(GenerateNames) : Lookup(GenerateNames[n]) >= 0

\* the contents of the chunk generate returns
GenerateContents(location) ==
    Let(GenerateIds, LAMBDA ids :
        GenerateLoop(ids, location, 0, [rand |-> RngSeed(SeedOf(location)),
                                        contents |-> ZeroContents,
                                        skip |-> FALSE]).contents)

\* the same for a Pack given by the names of its entries
LookupIn(names, name) == BinarySearch(names, name, 0, Len(names))

GenerateIdsIn(names) ==
    [air |-> LookupIn(names, "air"), bedrock |-> LookupIn(names, "bedrock.toml"),
     cobblestone |-> LookupIn(names, "cobblestone.toml"),
     dirt |-> LookupIn(names, "dirt.toml"),
     grass |-> LookupIn(names, "grass.toml"), stone |-> LookupIn(names, "stone.toml")]

\* a variant of LookupsOkIn: no lookup ever fails (unwrap_or in place of unwrap)
LookupsOkIn_lenient(names) == TRUE

\* whether every .unwrap() of generate's lookups in this Pack succeeds
LookupsOkIn(names) ==
    \A n \in 1 .. Len(GenerateNames) : LookupIn(names, GenerateNames[n]) >= 0

GenerateContentsIn(names, location) ==
    Let(GenerateIdsIn(names), LAMBDA ids :
        GenerateLoop(ids, location, 0, [rand |-> RngSeed(SeedOf(location)),
                                        contents |-> ZeroContents,
                                        skip |-> FALSE]).contents)

---------------------------------------------------------------------------
(* The inputs the model draws from *)

\* chunk positions (keys of World::loaded_chunks)
Positions == {<<0, 0, 0>>, <<0, 0, -3>>}

\* locations handed to place / index: inside the chunk, and with negative
\* components and components beyond the edge
Locations == {<<0, 0, 0>>, <<-1, Edge, 2 * Edge>>}

\* coordinates handed to reads: every cell of the chunk, reached through negative
\* and through non-negative components
ReadCoords == {<<x, y, z>> : x \in (-Edge) .. (Edge - 1),
                              y \in 0 .. (Edge - 1),
                              z \in Edge .. (2 * Edge - 1)}

\* block identifiers handed to place
PlacedBlocks == {0, Lookup("stone.toml")}

\* worker threads of the concurrent specification
Threads == {"t1", "t2"}

NoChunk == [nonce |-> <<>>, contents |-> <<>>]
NoCall ==
    [op |-> "none", pos |-> <<>>, loc |-> <<>>, block |-> 0, calls |-> U32Zero,
     ret |-> 0, prev_op |-> "none", prev_pos |-> <<>>]

\* the call made last: calls is the number of calls it stands for, modulo 2^32
Call(op, pos, loc, block, calls, ret) ==
    [op |-> op, pos |-> pos, loc |-> loc, block |-> block, calls |-> calls,
     ret |-> ret, prev_op |-> last.op, prev_pos |-> last.pos]

Issue(kind, nonce) ==
    issued \cup {[id |-> Cardinality(issued), kind |-> kind, nonce |-> nonce]}

\* World::default(), Mesher::new(), NONCE = 0; no call made yet
Start ==
    /\ NONCE = U32Zero
    /\ loaded_chunks = <<>>
    /\ cached_meshes = <<>>
    /\ arcs = <<>>
    /\ MESHING_TIMES = 0
    /\ tchunk = [t \in Threads |-> NoChunk]
    /\ tpc = [t \in Threads |-> "idle"]
    /\ last = NoCall
    /\ issued = {}
    /\ genlog = [p \in Positions |-> [calls |-> 0, contents |-> {}]]
    /\ selected_item = 0
    /\ vertex_buffers = <<>>
    /\ keys_pressed = {}
    /\ emitted = <<>>

Init == Start /\ fuel = MaxSteps

---------------------------------------------------------------------------
(* The calls of the single-threaded program *)

\* world.loaded_chunks.insert(pos, Chunk::default())
InsertDefault(pos) ==
    /\ fuel > 0
    /\ loaded_chunks' = (pos :> DefaultChunk(NONCE)) @@ loaded_chunks
    /\ NONCE' = FetchAddNew(NONCE)
    /\ issued' = Issue("default", NONCE)
    /\ last' = Call("default", pos, <<>>, 0, U32One, 0)
    /\ fuel' = fuel - 1
    /\ UNCHANGED <<cached_meshes, arcs, MESHING_TIMES, tchunk, tpc, genlog, frontend>>

\* world.loaded_chunks.insert(pos, Chunk::generate(pos, &pack))   (main.rs:132)
InsertGenerated(pos) ==
    /\ fuel > 0
    /\ GenerateLookupsOk
    /\ \E contents \in {GenerateContents(pos)} :
           /\ loaded_chunks' = (pos :> [DefaultChunk(NONCE) EXCEPT !.contents = contents])
                                   @@ loaded_chunks
           /\ genlog' = [genlog EXCEPT ![pos] = [calls |-> @.calls + 1,
                                                 contents |-> @.contents \cup {contents}]]
    /\ NONCE' = FetchAddNew(NONCE)
    /\ issued' = Issue("default", NONCE)
    /\ last' = Call("generate", pos, <<>>, 0, U32One, 0)
    /\ fuel' = fuel - 1
    /\ UNCHANGED <<cached_meshes, arcs, MESHING_TIMES, tchunk, tpc, frontend>>

\* chunk.place(location, block), called 1 + more times in a row with the
\* same arguments: every call writes the same cell and draws the next nonce
PlaceCalls(pos, location, block, more) ==
    /\ fuel > 0
    /\ pos \in DOMAIN loaded_chunks
    /\ \E nonce \in {U32Add(NONCE, more)} :
           /\ loaded_chunks' =
                 [loaded_chunks EXCEPT ![pos] =
                     [nonce |-> nonce,
                      contents |-> WriteCell(@.contents, PlaceCell(location), block)]]
           /\ NONCE' = FetchAddNew(nonce)
           /\ issued' = Issue("place", nonce)
    /\ last' = Call("place", pos, location, block, U32Add(more, U32One), 0)
    /\ fuel' = fuel - 1
    /\ UNCHANGED <<cached_meshes, arcs, MESHING_TIMES, tchunk, tpc, genlog, frontend>>

\* one call of Chunk::place
Place(pos, location, block) == PlaceCalls(pos, location, block, U32Zero)

\* 2^32 calls of Chunk::place in a row with the same arguments
PlaceRepeated(pos, location, block) == PlaceCalls(pos, location, block, U32Max)

\* for every cell, in storage order: chunk.place(cell, block)
Fill(pos, block) ==
    /\ fuel > 0
    /\ pos \in DOMAIN loaded_chunks
    /\ LET nonce == U32Add(NONCE, U32FromNat(Edge * Edge * Edge - 1))
       IN  /\ loaded_chunks' =
                 [loaded_chunks EXCEPT ![pos] =
                     [nonce |-> nonce,
                      contents |-> [k \in Axis |-> [j \in Axis |-> [i \in Axis |-> block]]]]]
           /\ NONCE' = FetchAddNew(nonce)
           /\ issued' = Issue("place", nonce)
    /\ last' = Call("fill", pos, <<>>, block, U32FromNat(Edge * Edge * Edge), 0)
    /\ fuel' = fuel - 1
    /\ UNCHANGED <<cached_meshes, arcs, MESHING_TIMES, tchunk, tpc, genlog, frontend>>

\* a variant of BuildMesh whose rebuild drops the entries of the other
\* coordinates
BuildMesh_flushing(pos) ==
    /\ fuel > 0
    /\ pos \in DOMAIN loaded_chunks
    /\ IF pos \in DOMAIN cached_meshes
             /\ CacheHit(arcs[cached_meshes[pos]].nonce, loaded_chunks[pos].nonce)
       THEN /\ last' = Call("build_mesh", pos, <<>>, 0, U32One, cached_meshes[pos])
            /\ UNCHANGED <<cached_meshes, arcs, MESHING_TIMES>>
       ELSE /\ arcs' = Append(arcs, RebuildMesh(loaded_chunks[pos], pos))
            /\ cached_meshes' = (pos :> (Len(arcs) + 1))
            /\ MESHING_TIMES' = MESHING_TIMES + 1
            /\ last' = Call("build_mesh", pos, <<>>, 0, U32One, Len(arcs) + 1)
    /\ fuel' = fuel - 1
    /\ UNCHANGED <<NONCE, loaded_chunks, tchunk, tpc, issued, genlog, frontend>>

\* mesher.build_mesh(&world.loaded_chunks[pos], pos, &pack); a panic of the
\* rebuild ends the process (main has no catch_unwind)
BuildMesh(pos) ==
    /\ fuel > 0
    /\ pos \in DOMAIN loaded_chunks
    /\ LET chunk == loaded_chunks[pos]
           hit == /\ pos \in DOMAIN cached_meshes
                  /\ CacheHit(arcs[cached_meshes[pos]].nonce, chunk.nonce)
       IN  IF hit
           THEN /\ last' = Call("build_mesh", pos, <<>>, 0, U32One, cached_meshes[pos])
                /\ fuel' = fuel - 1
                /\ UNCHANGED <<cached_meshes, arcs, MESHING_TIMES>>
           ELSE IF IndexPanics(chunk.contents)
           THEN /\ last' = Call("panic", pos, <<>>, 0, U32One, 0)
                /\ fuel' = 0
                /\ UNCHANGED <<cached_meshes, arcs, MESHING_TIMES>>
           ELSE /\ arcs' = Append(arcs, RebuildMesh(chunk, pos))
                /\ cached_meshes' = (pos :> (Len(arcs) + 1)) @@ cached_meshes
                /\ MESHING_TIMES' = MESHING_TIMES + 1
                /\ last' = Call("build_mesh", pos, <<>>, 0, U32One, Len(arcs) + 1)
                /\ fuel' = fuel - 1
    /\ UNCHANGED <<NONCE, loaded_chunks, tchunk, tpc, issued, genlog, frontend>>

\* chunk[index] = block through IndexMut: the cell is written, nothing else
IndexMutWrite(pos, index, block) ==
    /\ fuel > 0
    /\ pos \in DOMAIN loaded_chunks
    /\ loaded_chunks' =
          [loaded_chunks EXCEPT ![pos].contents = WriteCell(@, IndexMutCell(index), block)]
    /\ last' = Call("index_mut", pos, index, block, U32One, 0)
    /\ fuel' = fuel - 1
    /\ UNCHANGED <<NONCE, cached_meshes, arcs, MESHING_TIMES, tchunk, tpc, issued, genlog, frontend>>

Next ==
    \/ \E pos \in Positions : InsertDefault(pos)
    \/ \E pos \in Positions : InsertGenerated(pos)
    \/ \E pos \in Positions, location \in Locations, block \in PlacedBlocks :
          Place(pos, location, block)
    \/ \E pos \in Positions, location \in Locations, block \in PlacedBlocks :
          PlaceRepeated(pos, location, block)
    \/ \E pos \in Positions, block \in PlacedBlocks \ {0} : Fill(pos, block)
    \/ \E pos \in Positions : BuildMesh(pos)

\* the program as main.rs drives it: chunks are created, changed by place
\* and meshed
Spec == Init /\ [][Next]_vars

\* the same with writes through the public IndexMut of Chunk
NextIndexMut ==
    \/ Next
    \/ \E pos \in Positions, index \in Locations, block \in PlacedBlocks :
          IndexMutWrite(pos, index, block)

SpecIndexMut == Init /\ [][NextIndexMut]_vars

\* one chunk at the origin, followed through more calls
Origin == <<0, 0, 0>>

InitOneChunk == Start /\ fuel = MaxStepsOneChunk

NextOneChunk ==
    \/ InsertDefault(Origin)
    \/ \E block \in PlacedBlocks : Place(Origin, Origin, block)
    \/ \E block \in PlacedBlocks : PlaceRepeated(Origin, Origin, block)
    \/ \E block \in PlacedBlocks \ {0} : Fill(Origin, block)
    \/ BuildMesh(Origin)

SpecOneChunk == InitOneChunk /\ [][NextOneChunk]_vars

\* chunk[index] through Index: the cell's block is returned, nothing changes
Read(pos, index) ==
    /\ fuel > 0
    /\ pos \in DOMAIN loaded_chunks
    /\ last' = Call("index", pos, index, 0, U32One, Index(loaded_chunks[pos], index))
    /\ fuel' = fuel - 1
    /\ UNCHANGED <<NONCE, loaded_chunks, cached_meshes, arcs, MESHING_TIMES, tchunk, tpc,
                   issued, genlog, frontend>>

InitIndex == Start /\ fuel = MaxStepsIndex

NextIndex ==
    \/ \E pos \in Positions : InsertDefault(pos)
    \/ \E pos \in Positions : InsertGenerated(pos)
    \/ \E pos \in Positions, location \in Locations, block \in PlacedBlocks :
          Place(pos, location, block)
    \/ \E pos \in Positions, index \in ReadCoords : Read(pos, index)

\* chunks are created, changed by place and read through Index
SpecIndex == InitIndex /\ [][NextIndex]_vars

---------------------------------------------------------------------------
(* world.rs: World::build_meshes *)

\* IVec3::distance_squared
distance_squared(a, b) ==
    (a[1] - b[1]) * (a[1] - b[1]) + (a[2] - b[2]) * (a[2] - b[2])
        + (a[3] - b[3]) * (a[3] - b[3])

\* a variant of InRange that keeps the chunks at the radius itself
InRange_inclusive(location, pos, distance) ==
    distance_squared(<<Shr(location[1], EdgeBits), Shr(location[2], EdgeBits),
                       Shr(location[3], EdgeBits)>>, pos) <= distance * distance

\* the filter closure: chunk_loc = location >> 5;
\* chunk_loc.distance_squared(pos) < distance * distance
InRange(location, pos, distance) ==
    distance_squared(<<Shr(location[1], EdgeBits), Shr(location[2], EdgeBits),
                       Shr(location[3], EdgeBits)>>, pos) < distance * distance

\* Mesher::build_mesh as a function of the mesher's state m =
\* [cached_meshes, arcs, MESHING_TIMES]: the state after the call and the
\* handle returned
build_mesh(m, chunk, pos) ==
    IF pos \in DOMAIN m.cached_meshes
          /\ CacheHit(m.arcs[m.cached_meshes[pos]].nonce, chunk.nonce)
    THEN [m |-> m, ret |-> m.cached_meshes[pos]]
    ELSE [m |-> [cached_meshes |-> (pos :> (Len(m.arcs) + 1)) @@ m.cached_meshes,
                 arcs |-> Append(m.arcs, RebuildMesh(chunk, pos)),
                 MESHING_TIMES |-> m.MESHING_TIMES + 1],
          ret |-> Len(m.arcs) + 1]

\* the .map closure run over the filtered entries in the order the HashMap
\* iterates them: acc = [m, yielded]
RECURSIVE MapBuild(_, _, _, _)
MapBuild(chunks, order, n, sofar) ==
    Let(sofar, LAMBDA acc :
        IF n > Len(order) THEN acc
        ELSE Let(build_mesh(acc.m, chunks[order[n]], order[n]), LAMBDA r :
                 MapBuild(chunks, order, n + 1,
                          [m |-> r.m,
                           yielded |-> Append(acc.yielded, <<order[n], r.ret>>)])))

\* the orders in which a HashMap may iterate the entries with keys in S
IterationOrders(S) ==
    {f \in [1 .. Cardinality(S) -> S] : \A a, b \in 1 .. Cardinality(S) : f[a] = f[b] => a = b}

\* the focal points and radii handed to build_meshes
WorldPositions == {<<0, 0, 0>>, <<1, 1, 1>>, <<2, 0, 0>>, <<0, 0, -1>>}
WorldLocations == {<<0, 0, 0>>, <<Edge - 1, 0, -1>>}
Radii == {0, 1, 2}

\* for (location, mesh) in world.build_meshes(&mut mesher, location, &pack,
\* distance) { .. }: the iterator is run to its end
BuildMeshes(location, distance) ==
    /\ fuel > 0
    /\ \E order \in IterationOrders({pos \in DOMAIN loaded_chunks :
                                        InRange(location, pos, distance)}) :
          \E r \in {MapBuild(loaded_chunks, order, 1,
                             [m |-> [cached_meshes |-> cached_meshes, arcs |-> arcs,
                                     MESHING_TIMES |-> MESHING_TIMES],
                              yielded |-> <<>>])} :
             /\ cached_meshes' = r.m.cached_meshes
             /\ arcs' = r.m.arcs
             /\ MESHING_TIMES' = r.m.MESHING_TIMES
             /\ last' = Call("build_meshes", <<>>, location, 0, U32One,
                             [distance |-> distance, yielded |-> r.yielded])
    /\ fuel' = fuel - 1
    /\ UNCHANGED <<NONCE, loaded_chunks, tchunk, tpc, issued, genlog, frontend>>

InitWorld == Start /\ fuel = MaxStepsWorld

NextWorld ==
    \/ \E pos \in WorldPositions : InsertDefault(pos)
    \/ \E pos \in WorldPositions, block \in PlacedBlocks \ {0} : Place(pos, Origin, block)
    \/ \E location \in WorldLocations, distance \in Radii : BuildMeshes(location, distance)

\* a World of several chunks, meshed around a focal point
SpecWorld == InitWorld /\ [][NextWorld]_vars

---------------------------------------------------------------------------
(* main.rs: the World as main populates it before the event loop *)

\* the order in which main's loops (for k, for j, for i) reach Positions
PopulateOrder == <<<<0, 0, -3>>, <<0, 0, 0>>>>

\* for k .. for j .. for i: loaded_chunks.insert([i, j, k], Chunk::generate(..)):
\* the n-th chunk generated is given nonce n - 1
InitLoaded ==
    /\ NONCE = U32FromNat(Len(PopulateOrder))
    /\ loaded_chunks =
          [pos \in Positions |->
              [nonce |-> U32FromNat((CHOOSE n \in 1 .. Len(PopulateOrder) :
                                        PopulateOrder[n] = pos) - 1),
               contents |-> GenerateContents(pos)]]
    /\ cached_meshes = <<>>
    /\ arcs = <<>>
    /\ MESHING_TIMES = 0
    /\ tchunk = [t \in Threads |-> NoChunk]
    /\ tpc = [t \in Threads |-> "idle"]
    /\ last = [NoCall EXCEPT !.op = "generate", !.pos = PopulateOrder[Len(PopulateOrder)]]
    /\ issued = {[id |-> n - 1, kind |-> "default", nonce |-> U32FromNat(n - 1)] :
                    n \in 1 .. Len(PopulateOrder)}
    /\ genlog = [pos \in Positions |->
                    [calls |-> 1, contents |-> {GenerateContents(pos)}]]
    /\ selected_item = 0
    /\ vertex_buffers = <<>>
    /\ keys_pressed = {}
    /\ emitted = <<>>
    /\ fuel = MaxStepsLoaded

NextLoaded ==
    \/ \E pos \in Positions, block \in PlacedBlocks : Place(pos, Origin, block)
    \/ \E pos \in Positions : BuildMesh(pos)

\* the event loop over the populated World: single chunks are changed and
\* meshed
SpecLoaded == InitLoaded /\ [][NextLoaded]_vars

---------------------------------------------------------------------------
(* Chunk::generate with Packs of several directories *)

\* names without one of its entries
Without(names, name) == SelectSeq(names, LAMBDA n : n # name)

\* Pack::blocks of several asset directories: all block files in name order,
\* one file missing, and all files in another directory order
Packs ==
    {pack_names,
     Without(pack_names, "stone.toml"),
     Without(pack_names, "gravel.toml"),
     <<"air", "wood.toml", "stone.toml", "sand.toml", "pumpkin.toml", "obsidian.toml",
       "leaves.toml", "gravel.toml", "grass.toml", "dirt.toml", "cobblestone.toml",
       "cactus.toml", "bedrock.toml">>}

\* loaded_chunks.insert(pos, Chunk::generate(pos, &pack)) for the Pack with
\* these names: Self::default() draws a nonce, then a failed .unwrap() panics
\* (main has no catch_unwind: the process ends), else the loops fill the chunk
Generate(pos, names) ==
    /\ fuel > 0
    /\ NONCE' = FetchAddNew(NONCE)
    /\ IF LookupsOkIn(names)
       THEN /\ loaded_chunks' =
                  (pos :> [DefaultChunk(NONCE) EXCEPT
                              !.contents = GenerateContentsIn(names, pos)]) @@ loaded_chunks
            /\ issued' = Issue("default", NONCE)
            /\ last' = Call("generate", pos, <<>>, 0, U32One, names)
            /\ fuel' = fuel - 1
       ELSE /\ last' = Call("panic", pos, <<>>, 0, U32One, names)
            /\ fuel' = 0
            /\ UNCHANGED <<loaded_chunks, issued>>
    /\ UNCHANGED <<cached_meshes, arcs, MESHING_TIMES, tchunk, tpc, genlog, frontend>>

InitPacks == Start /\ fuel = MaxStepsPacks

NextPacks ==
    \/ \E pos \in Positions, names \in Packs : Generate(pos, names)
    \/ \E pos \in Positions, block \in PlacedBlocks : Place(pos, Origin, block)

\* chunks are generated from the Pack of the directory at hand
SpecPacks == InitPacks /\ [][NextPacks]_vars

---------------------------------------------------------------------------
(* Chunks that are handed identifiers the Pack has no entry for *)

\* identifiers handed to place: entries of the Pack, a negative number and
\* the first number past the Pack's last entry
AnyBlocks == PlacedBlocks \cup {-1, Len(pack_names)}

InitInvalid == Start /\ fuel = MaxStepsInvalid

NextInvalid ==
    \/ InsertDefault(Origin)
    \/ \E location \in Locations, block \in AnyBlocks : Place(Origin, location, block)
    \/ \E location \in Locations, block \in AnyBlocks : PlaceRepeated(Origin, location, block)
    \/ BuildMesh(Origin)

SpecInvalid == InitInvalid /\ [][NextInvalid]_vars

---------------------------------------------------------------------------
(* Threads that create chunks and place into them concurrently.  Every thread
   owns its chunk; the threads share NONCE alone.  A step is one atomic
   access to NONCE together with the thread-local work before it. *)

\* thread t: Chunk::default(), whose fresh_nonce() is one fetch_add
T_Default(t) ==
    /\ fuel > 0
    /\ tpc[t] = "idle"
    /\ tchunk[t] = NoChunk
    /\ tchunk' = [tchunk EXCEPT ![t] = DefaultChunk(NONCE)]
    /\ NONCE' = FetchAddNew(NONCE)
    /\ issued' = Issue("default", NONCE)
    /\ fuel' = fuel - 1
    /\ UNCHANGED <<loaded_chunks, cached_meshes, arcs, MESHING_TIMES, tpc, last, genlog, frontend>>

\* thread t: Chunk::generate(pos, &pack), which ends in ..Default::default()
T_Generate(t, pos) ==
    /\ fuel > 0
    /\ tpc[t] = "idle"
    /\ tchunk[t] = NoChunk
    /\ GenerateLookupsOk
    /\ \E contents \in {GenerateContents(pos)} :
          /\ tchunk' = [tchunk EXCEPT ![t] = [DefaultChunk(NONCE) EXCEPT !.contents = contents]]
          /\ genlog' = [genlog EXCEPT ![pos] = [calls |-> @.calls + 1,
                                                contents |-> @.contents \cup {contents}]]
    /\ NONCE' = FetchAddNew(NONCE)
    /\ issued' = Issue("default", NONCE)
    /\ fuel' = fuel - 1
    /\ UNCHANGED <<loaded_chunks, cached_meshes, arcs, MESHING_TIMES, tpc, last, frontend>>

\* thread t, first statement of place: self[location] = block
T_PlaceWrite(t, location, block) ==
    /\ fuel > 0
    /\ tpc[t] = "idle"
    /\ tchunk[t] # NoChunk
    /\ tchunk' = [tchunk EXCEPT ![t].contents = WriteCell(@, PlaceCell(location), block)]
    /\ tpc' = [tpc EXCEPT ![t] = "nonce"]
    /\ fuel' = fuel - 1
    /\ UNCHANGED <<NONCE, loaded_chunks, cached_meshes, arcs, MESHING_TIMES, last, issued,
                   genlog, frontend>>

\* thread t, second statement of place: self.nonce = fresh_nonce()
T_PlaceNonce(t) ==
    /\ fuel > 0
    /\ tpc[t] = "nonce"
    /\ tchunk' = [tchunk EXCEPT ![t].nonce = NONCE]
    /\ NONCE' = FetchAddNew(NONCE)
    /\ issued' = Issue("place", NONCE)
    /\ tpc' = [tpc EXCEPT ![t] = "idle"]
    /\ fuel' = fuel - 1
    /\ UNCHANGED <<loaded_chunks, cached_meshes, arcs, MESHING_TIMES, last, genlog, frontend>>

\* thread t runs 2^32 whole calls of place while the other threads are not
\* scheduled
T_PlaceRepeated(t, location, block) ==
    /\ fuel > 0
    /\ tpc[t] = "idle"
    /\ tchunk[t] # NoChunk
    /\ \E nonce \in {U32Add(NONCE, U32Max)} :
          /\ tchunk' = [tchunk EXCEPT ![t] =
                           [nonce |-> nonce,
                            contents |-> WriteCell(@.contents, PlaceCell(location), block)]]
          /\ NONCE' = FetchAddNew(nonce)
          /\ issued' = Issue("place", nonce)
    /\ fuel' = fuel - 1
    /\ UNCHANGED <<loaded_chunks, cached_meshes, arcs, MESHING_TIMES, tpc, last, genlog, frontend>>

InitThreads == Start /\ fuel = MaxStepsThreads

NextThreads ==
    \/ \E t \in Threads : T_Default(t)
    \/ \E t \in Threads, pos \in Positions : T_Generate(t, pos)
    \/ \E t \in Threads, location \in Locations, block \in PlacedBlocks :
          T_PlaceWrite(t, location, block)
    \/ \E t \in Threads : T_PlaceNonce(t)
    \/ \E t \in Threads, location \in Locations, block \in PlacedBlocks :
          T_PlaceRepeated(t, location, block)

SpecThreads == InitThreads /\ [][NextThreads]_vars

---------------------------------------------------------------------------
(* Properties of Mesher::build_mesh and its cache *)

\* C1: every build_mesh returns a handle whose nonce is the chunk's nonce at
\* the call and whose vertices and indices are those a from-scratch
\* computation over the chunk's contents at the call produces.
C1_MeshIsCurrent ==
    last.op = "build_mesh" =>
        arcs[last.ret] = RebuildMesh(loaded_chunks[last.pos], last.pos)

\* a step that is a call of the program (every call uses up fuel)
CallStep == fuel' # fuel

\* C2: build_mesh called twice in a row for one coordinate, the chunk not
\* touched in between: the second call returns the handle of the first, does
\* not replace the cache entry and does not count a rebuild.
C2_SecondBuildIsHit ==
    [][(CallStep /\ last.op = "build_mesh" /\ last'.op = "build_mesh"
          /\ last'.pos = last.pos)
       => /\ last'.ret = last.ret
          /\ cached_meshes' = cached_meshes
          /\ arcs' = arcs
          /\ MESHING_TIMES' = MESHING_TIMES]_vars

\* C2's case: a second build_mesh in a row has returned a non-empty mesh
C2_Witness ==
    /\ last.op = "build_mesh"
    /\ last.prev_op = "build_mesh"
    /\ last.prev_pos = last.pos
    /\ MESHING_TIMES >= 1
    /\ Len(arcs[last.ret].vertices) > 0

---------------------------------------------------------------------------
(* Properties of the nonce *)

\* C3: one call of an operation of Chunk that changes the block contents
\* (place, or a write through IndexMut) leaves the chunk with a nonce that
\* differs from the one it had before.
C3_WriteChangesNonce ==
    [][(CallStep /\ last'.op \in {"place", "index_mut"} /\ last'.calls = U32One
          /\ loaded_chunks'[last'.pos].contents # loaded_chunks[last'.pos].contents)
       => loaded_chunks'[last'.pos].nonce # loaded_chunks[last'.pos].nonce]_vars

\* C4: after place the chunk's nonce is strictly greater than before, and no
\* earlier place was given the same nonce, for every number of calls.  (Over
\* a run of place calls on one chunk the nonce after the run is strictly
\* greater than before it if every call increases it.)
C4_PlaceNonceIncreases ==
    [][(CallStep /\ last'.op = "place")
       => /\ U32Less(loaded_chunks[last'.pos].nonce, loaded_chunks'[last'.pos].nonce)
          /\ \A e \in issued :
                e.kind = "place" => e.nonce # loaded_chunks'[last'.pos].nonce]_vars

\* C5: under every interleaving of the threads, no two chunk versions, of
\* one chunk or of different chunks, were given the same nonce.
C5_NoncesUnique ==
    \A a \in issued, b \in issued : a.id # b.id => a.nonce # b.nonce

---------------------------------------------------------------------------
(* Properties of indexing and place *)

\* d and c name the same cell: congruent modulo the edge on all three axes
Congruent(d, c) == \A a \in 1 .. 3 : (d[a] - c[a]) % Edge = 0

\* C6: after chunk.place(c, v), chunk[c] reads v, and chunk[d] is unchanged
\* for every d not congruent to c modulo the edge on all three axes.
C6_PlaceWritesOneCell ==
    [][(CallStep /\ last'.op = "place")
       => /\ Index(loaded_chunks'[last'.pos], last'.loc) = last'.block
          /\ \A d \in ReadCoords :
                ~Congruent(d, last'.loc)
                   => Index(loaded_chunks'[last'.pos], d)
                         = Index(loaded_chunks[last'.pos], d)]_vars

\* C6's case: place has written through a coordinate with a negative
\* component and components beyond the edge, into a chunk holding another
\* block elsewhere
C6_Witness ==
    /\ last.op = "place"
    /\ last.calls = U32One
    /\ last.loc = <<-1, Edge, 2 * Edge>>
    /\ Index(loaded_chunks[last.pos], last.loc) = last.block
    /\ \E d \in ReadCoords : Index(loaded_chunks[last.pos], d) # last.block

\* the shifts k of C7
Shifts == {<<1, 0, 0>>, <<0, -1, 0>>, <<0, 0, 2>>, <<-2, 3, -1>>}

\* C7: chunk[c] and chunk[c + 32 k] read the same cell, for negative as for
\* non-negative components, and every read stays inside the array.
C7_IndexWraps ==
    last.op = "index" =>
        /\ IndexCell(last.loc) \in Axis \X Axis \X Axis
        /\ \A k \in Shifts :
              /\ IndexCell(IVecAdd(last.loc, IVecScale(Edge, k))) \in Axis \X Axis \X Axis
              /\ Index(loaded_chunks[last.pos], IVecAdd(last.loc, IVecScale(Edge, k)))
                    = last.ret

\* C7's case: a block was read through a coordinate with a negative
\* component from a chunk whose cells differ
C7_Witness ==
    /\ last.op = "index"
    /\ last.loc[1] < 0
    /\ last.ret # 0
    /\ \E d \in ReadCoords : Index(loaded_chunks[last.pos], d) # last.ret

---------------------------------------------------------------------------
(* Properties of the geometry build_mesh returns *)

\* C8: for a chunk whose every cell is 0 and a pack whose entry 0 is the air
\* block, build_mesh returns a mesh with no vertices and no indices, and the
\* result is the one stored in the cache.
C8_AllAirMeshIsEmpty ==
    (/\ last.op = "build_mesh"
     /\ loaded_chunks[last.pos].contents = ZeroContents
     /\ PackBlock(0) = DefaultBlock)
    => /\ arcs[last.ret].vertices = <<>>
       /\ arcs[last.ret].indices = <<>>
       /\ cached_meshes[last.pos] = last.ret

\* every cell of the chunk holds block b
Uniform(chunk, b) == \A k \in Axis, j \in Axis, i \in Axis : chunk.contents[k][j][i] = b

\* b culls on all six sides and files every quad under an oriented side
FullCube(b) ==
    /\ \A d \in Direction : PackBlock(b).culls[d]
    /\ PackBlock(b).mesh["none"] = <<>>

\* voxel (i, j, k) lies in the boundary layer of the chunk facing d
FacesBoundary(i, j, k, d) ==
    CASE d = "west" -> i = 0
      [] d = "east" -> i = Edge - 1
      [] d = "south" -> j = 0
      [] d = "north" -> j = Edge - 1
      [] d = "down" -> k = 0
      [] d = "up" -> k = Edge - 1

\* the quads of side d of block b for every voxel of the boundary layer
\* facing d, each moved to its voxel
BoundaryQuads(b, position) ==
    {[m \in 1 .. 4 |-> Translate(PackBlock(b).mesh[d][q][m], position, v[1], v[2], v[3])] :
        <<d, v, q>> \in {t \in Direction \X (Axis \X Axis \X Axis) \X {1} :
                            FacesBoundary(t[2][1], t[2][2], t[2][3], t[1])}}

\* the quads of a mesh, as a set
MeshQuads(mesh) ==
    {SubSeq(mesh.vertices, 4 * n + 1, 4 * n + 4) : n \in 0 .. ((Len(mesh.vertices) \div 4) - 1)}

\* C9: for a chunk filled with one block that culls on all six sides and has
\* its quads under the six oriented sides, build_mesh emits no quad between
\* two voxels of the chunk and exactly the quads of the faces on the chunk
\* boundary.
C9_OnlyBoundaryFaces ==
    (/\ last.op = "build_mesh"
     /\ \E b \in PlacedBlocks \ {0} : Uniform(loaded_chunks[last.pos], b) /\ FullCube(b))
    => \E b \in PlacedBlocks \ {0} :
          /\ Uniform(loaded_chunks[last.pos], b)
          /\ MeshQuads(arcs[last.ret]) = BoundaryQuads(b, last.pos)
          /\ Len(arcs[last.ret].vertices) = 4 * 6 * Edge * Edge
          /\ Len(arcs[last.ret].indices) = 6 * 6 * Edge * Edge

---------------------------------------------------------------------------
(* Properties of Chunk::generate *)

---------------------------------------------------------------------------
(* Properties of World::build_meshes *)

\* the chunk a world location lies in
FocalChunk(location) ==
    <<location[1] \div Edge, location[2] \div Edge, location[3] \div Edge>>

\* the squared Euclidean distance of two chunk coordinates
SquaredDistance(a, b) ==
    LET Sq(n) == n * n IN Sq(a[1] - b[1]) + Sq(a[2] - b[2]) + Sq(a[3] - b[3])

\* the positions build_meshes yielded last
YieldedPositions == {last.ret.yielded[n][1] : n \in 1 .. Len(last.ret.yielded)}

\* C11: build_meshes yields a loaded chunk if and only if its squared
\* distance to the focal chunk is strictly less than radius * radius, each
\* such chunk once, and nothing for radius 0.
C11_YieldsWithinRadius ==
    last.op = "build_meshes" =>
        /\ YieldedPositions =
              {pos \in DOMAIN loaded_chunks :
                  SquaredDistance(FocalChunk(last.loc), pos)
                     < last.ret.distance * last.ret.distance}
        /\ Len(last.ret.yielded) = Cardinality(YieldedPositions)
        /\ last.ret.distance = 0 => last.ret.yielded = <<>>

\* C11's case: around a focal point off the origin of its chunk, a loaded
\* chunk at squared distance radius^2 was left out and one at radius^2 - 1
\* was yielded
C11_Witness ==
    /\ last.op = "build_meshes"
    /\ last.loc # Origin
    /\ \E pos \in DOMAIN loaded_chunks :
          /\ SquaredDistance(FocalChunk(last.loc), pos)
                = last.ret.distance * last.ret.distance
          /\ pos \notin YieldedPositions
    /\ \E pos \in YieldedPositions :
          SquaredDistance(FocalChunk(last.loc), pos)
             = last.ret.distance * last.ret.distance - 1

---------------------------------------------------------------------------
(* Properties of the mesh cache *)

\* C12: build_mesh for a coordinate inserts or replaces at most the entry of
\* that coordinate and leaves every other coordinate's entry bound to the
\* same handle; after it the cache's entry for the coordinate carries the
\* chunk's nonce.
C12_OnlyOwnEntryChanges ==
    [][(CallStep /\ last'.op = "build_mesh")
       => /\ DOMAIN cached_meshes' = DOMAIN cached_meshes \cup {last'.pos}
          /\ \A pos \in DOMAIN cached_meshes \ {last'.pos} :
                /\ cached_meshes'[pos] = cached_meshes[pos]
                /\ arcs'[cached_meshes'[pos]] = arcs[cached_meshes[pos]]
          /\ arcs'[cached_meshes'[last'.pos]].nonce = loaded_chunks[last'.pos].nonce]_vars

\* C12's case: a chunk was re-meshed after a place, its entry was replaced,
\* and another chunk's entry is in the cache
C12_Witness ==
    /\ last.op = "build_mesh"
    /\ last.prev_op = "place"
    /\ last.prev_pos = last.pos
    /\ last.ret >= 3
    /\ cached_meshes[last.pos] = last.ret
    /\ \E pos \in DOMAIN cached_meshes : pos # last.pos

---------------------------------------------------------------------------
(* Properties of generate's lookups *)

\* the Pack has no entry of this name
Lacks(names, name) == \A n \in 1 .. Len(names) : names[n] # name

\* C13: if the Pack lacks a name generate looks up, generate ends in a fatal
\* error and no chunk, whole or partial, reaches the World.
C13_MissingNameIsFatal ==
    [][(CallStep /\ last'.op \in {"generate", "panic"}
          /\ \E n \in 1 .. Len(GenerateNames) : Lacks(last'.ret, GenerateNames[n]))
       => /\ last'.op = "panic"
          /\ loaded_chunks' = loaded_chunks
          /\ fuel' = 0]_vars

\* C13's case: generate has panicked on a Pack without stone.toml in a World
\* that holds a chunk
C13_Witness ==
    /\ last.op = "panic"
    /\ Lacks(last.ret, "stone.toml")
    /\ DOMAIN loaded_chunks # {}

---------------------------------------------------------------------------
(* Properties of build_mesh on identifiers outside the Pack *)

\* the identifier is no index into the Pack
Foreign(id) == id < 0 \/ id >= Len(pack_names)

\* the chunk holds a voxel whose identifier is no index into the Pack
HoldsForeign(chunk) ==
    \E k \in Axis, j \in Axis, i \in Axis : Foreign(chunk.contents[k][j][i])

\* C14: build_mesh on a chunk that holds an identifier outside the Pack ends
\* in a fatal error, returns no mesh and inserts or replaces no cache entry.
C14_ForeignIdIsFatal ==
    [][(CallStep /\ last'.op \in {"build_mesh", "panic"}
          /\ HoldsForeign(loaded_chunks[last'.pos]))
       => /\ last'.op = "panic"
          /\ cached_meshes' = cached_meshes
          /\ arcs' = arcs
          /\ fuel' = 0]_vars

\* ---------------------------------------------------------------------
\* Directions: opposite and the unit vector of a direction are applied to
\* every direction, in every order

MaxStepsDirections == 6

\* d.opposite()
Opposite(d) ==
    /\ fuel > 0
    /\ last' = Call("opposite", <<>>, <<>>, 0, U32One,
                    [arg |-> d, res |-> opposite(d), vec |-> DirVec(opposite(d))])
    /\ fuel' = fuel - 1
    /\ UNCHANGED <<NONCE, loaded_chunks, cached_meshes, arcs, MESHING_TIMES, tchunk, tpc,
                   issued, genlog, frontend>>

\* IVec3::from(d)
IntoIVec3(d) ==
    /\ fuel > 0
    /\ last' = Call("into_ivec3", <<>>, <<>>, 0, U32One,
                    [arg |-> d, res |-> d, vec |-> DirVec(d)])
    /\ fuel' = fuel - 1
    /\ UNCHANGED <<NONCE, loaded_chunks, cached_meshes, arcs, MESHING_TIMES, tchunk, tpc,
                   issued, genlog, frontend>>

InitDirections == Start /\ fuel = MaxStepsDirections

NextDirections ==
    \/ \E d \in Direction : Opposite(d)
    \/ \E d \in Direction : IntoIVec3(d)

SpecDirections == InitDirections /\ [][NextDirections]_vars

\* C15: Direction::opposite has no fixed point, applied to its own result
\* it gives back the direction it started from, and the unit vector of the
\* opposite direction is the negation of the direction's unit vector
C15_OppositeInvolution ==
    [][(CallStep /\ last'.op = "opposite")
       => /\ last'.ret.res # last'.ret.arg
          /\ \A d \in Direction :
                (last.op = "into_ivec3" /\ last.ret.arg = d /\ last'.ret.arg = d)
                   => last'.ret.vec = IVecScale(-1, last.ret.vec)
          /\ (last.op = "opposite" /\ last'.ret.arg = last.ret.res)
                => last'.ret.res = last.ret.arg]_vars

\* opposite has been applied to the result of opposite, after the unit
\* vector of the first direction had been taken
C15_Witness ==
    /\ last.op = "opposite"
    /\ last.prev_op = "opposite"
    /\ last.ret.arg = "down"
    /\ last.ret.res = "up"
    /\ fuel = MaxStepsDirections - 3

\* ---------------------------------------------------------------------
\* Meshing with a pack given by the caller: one chunk away from the origin
\* is changed by place and meshed with a pack read from a directory that
\* also holds slab.toml, or with a Pack value whose entry 0 culls

MaxStepsMesh == 5

\* open_blocks over a directory whose last file is slab.toml
SlabPack == pack_names \o <<"slab.toml">>

\* a Pack built through its public fields: entry 0 is a culling cube
CullingFirstPack == <<"stone.toml">> \o Tail(SlabPack)

MeshPacks == {SlabPack, CullingFirstPack}

\* the index of a block file in Pack::blocks
IdOf(pack, name) == (CHOOSE n \in 1 .. Len(pack) : pack[n] = name) - 1

MeshBlocks ==
    {0, IdOf(SlabPack, "cactus.toml"), IdOf(SlabPack, "stone.toml"), IdOf(SlabPack, "slab.toml")}

MeshPosition == <<1, 0, -1>>

MeshLocations == {<<0, 0, 0>>, <<1, 0, 0>>, <<0, 0, 1>>}

\* a variant of BuildMeshWith that rebuilds into the allocation of the entry
\* it replaces
BuildMeshWith_inplace(pos, pack) ==
    /\ fuel > 0
    /\ pos \in DOMAIN loaded_chunks
    /\ LET chunk == loaded_chunks[pos]
           hit == /\ pos \in DOMAIN cached_meshes
                  /\ CacheHit(arcs[cached_meshes[pos]].nonce, chunk.nonce)
       IN  IF hit
           THEN /\ last' = Call("build_mesh", pos, pack, 0, U32One, cached_meshes[pos])
                /\ fuel' = fuel - 1
                /\ UNCHANGED <<cached_meshes, arcs, MESHING_TIMES>>
           ELSE IF IndexPanicsIn(pack, chunk.contents)
           THEN /\ last' = Call("panic", pos, pack, 0, U32One, 0)
                /\ fuel' = 0
                /\ UNCHANGED <<cached_meshes, arcs, MESHING_TIMES>>
           ELSE IF pos \in DOMAIN cached_meshes
           THEN /\ arcs' = [arcs EXCEPT ![cached_meshes[pos]] = RebuildMeshIn(pack, chunk, pos)]
                /\ MESHING_TIMES' = MESHING_TIMES + 1
                /\ last' = Call("build_mesh", pos, pack, 0, U32One, cached_meshes[pos])
                /\ fuel' = fuel - 1
                /\ UNCHANGED cached_meshes
           ELSE /\ arcs' = Append(arcs, RebuildMeshIn(pack, chunk, pos))
                /\ cached_meshes' = (pos :> (Len(arcs) + 1)) @@ cached_meshes
                /\ MESHING_TIMES' = MESHING_TIMES + 1
                /\ last' = Call("build_mesh", pos, pack, 0, U32One, Len(arcs) + 1)
                /\ fuel' = fuel - 1
    /\ UNCHANGED <<NONCE, loaded_chunks, tchunk, tpc, issued, genlog, frontend>>

\* mesher.build_mesh(&chunk, pos, &pack) with the pack as an argument
BuildMeshWith(pos, pack) ==
    /\ fuel > 0
    /\ pos \in DOMAIN loaded_chunks
    /\ LET chunk == loaded_chunks[pos]
           hit == /\ pos \in DOMAIN cached_meshes
                  /\ CacheHit(arcs[cached_meshes[pos]].nonce, chunk.nonce)
       IN  IF hit
           THEN /\ last' = Call("build_mesh", pos, pack, 0, U32One, cached_meshes[pos])
                /\ fuel' = fuel - 1
                /\ UNCHANGED <<cached_meshes, arcs, MESHING_TIMES>>
           ELSE IF IndexPanicsIn(pack, chunk.contents)
           THEN /\ last' = Call("panic", pos, pack, 0, U32One, 0)
                /\ fuel' = 0
                /\ UNCHANGED <<cached_meshes, arcs, MESHING_TIMES>>
           ELSE /\ arcs' = Append(arcs, RebuildMeshIn(pack, chunk, pos))
                /\ cached_meshes' = (pos :> (Len(arcs) + 1)) @@ cached_meshes
                /\ MESHING_TIMES' = MESHING_TIMES + 1
                /\ last' = Call("build_mesh", pos, pack, 0, U32One, Len(arcs) + 1)
                /\ fuel' = fuel - 1
    /\ UNCHANGED <<NONCE, loaded_chunks, tchunk, tpc, issued, genlog, frontend>>

InitMesh == Start /\ fuel = MaxStepsMesh

NextMesh ==
    \/ InsertDefault(MeshPosition)
    \/ \E location \in MeshLocations, block \in MeshBlocks :
          Place(MeshPosition, location, block)
    \/ \E pack \in MeshPacks : BuildMeshWith(MeshPosition, pack)

SpecMesh == InitMesh /\ [][NextMesh]_vars

\* a call of build_mesh that rebuilt the mesh
Rebuilt == CallStep /\ last'.op = "build_mesh" /\ MESHING_TIMES' = MESHING_TIMES + 1

InChunk(v) == v \in Axis \X Axis \X Axis

At(contents, v) == contents[v[3]][v[2]][v[1]]

\* a quad of a block, moved as build_mesh moves the quads of voxel v
MovedQuad(quad, position, v) ==
    [m \in 1 .. 4 |-> Translate(quad[m], position, v[1], v[2], v[3])]

\* quad q of a side of the block of voxel v, moved as build_mesh moves it
QuadAt(pack, contents, position, v, side, q) ==
    MovedQuad(PackBlockIn(pack, At(contents, v)).mesh[side][q], position, v)

\* the quads of a side of the block of voxel v
QuadsOf(pack, contents, v, side) ==
    1 .. Len(PackBlockIn(pack, At(contents, v)).mesh[side])

\* C16: in a rebuild, for a voxel and a direction d whose neighbour lies
\* inside the chunk, the quads of side d of the voxel's block are in the
\* mesh exactly when the neighbour's block does not cull on opposite(d);
\* the quads of side "none" are always in the mesh.
C16_CullingRule ==
    [][Rebuilt =>
         \E contents \in {loaded_chunks[last'.pos].contents},
            quads \in {MeshQuads(arcs'[last'.ret])},
            blocks \in {[id \in 0 .. Len(last'.loc) - 1 |-> PackBlockIn(last'.loc, id)]} :
             \A v \in Axis \X Axis \X Axis :
                \E block \in {blocks[At(contents, v)]} :
                   /\ \A q \in 1 .. Len(block.mesh["none"]) :
                         MovedQuad(block.mesh["none"][q], last'.pos, v) \in quads
                   /\ \A d \in Direction :
                         (block.mesh[d] # <<>> /\ InChunk(IVecAdd(v, DirVec(d))))
                         => \A q \in 1 .. Len(block.mesh[d]) :
                               (MovedQuad(block.mesh[d][q], last'.pos, v) \in quads)
                               <=> ~blocks[At(contents, IVecAdd(v, DirVec(d)))]
                                       .culls[opposite(d)]]_vars

\* a rebuild of a chunk with a slab above a cactus: the top quad of the
\* cactus is culled by the slab, the bottom quad of the slab is not culled
\* by the cactus, and the "none" quad of the slab is there
C16_Witness ==
    /\ last.op = "build_mesh"
    /\ last.loc = SlabPack
    /\ last.ret = Len(arcs)
    /\ arcs[last.ret].nonce = loaded_chunks[last.pos].nonce
    /\ LET contents == loaded_chunks[last.pos].contents
           quads == MeshQuads(arcs[last.ret])
       IN  /\ At(contents, <<0, 0, 0>>) = IdOf(SlabPack, "cactus.toml")
           /\ At(contents, <<0, 0, 1>>) = IdOf(SlabPack, "slab.toml")
           /\ QuadAt(SlabPack, contents, last.pos, <<0, 0, 0>>, "up", 1) \notin quads
           /\ QuadAt(SlabPack, contents, last.pos, <<0, 0, 1>>, "down", 1) \in quads
           /\ QuadAt(SlabPack, contents, last.pos, <<0, 0, 1>>, "none", 1) \in quads

C18_QuadIndices ==
    last.op = "build_mesh"
    => LET mesh == arcs[last.ret]
           num_quads == Len(mesh.vertices) \div 4
       IN  /\ Len(mesh.vertices) % 4 = 0
           /\ Len(mesh.indices) = 6 * num_quads
           /\ \A n \in 0 .. (num_quads - 1) :
                 SubSeq(mesh.indices, 6 * n + 1, 6 * n + 6)
                    = <<4 * n, 4 * n + 1, 4 * n + 2, 4 * n + 3, 4 * n, 4 * n + 2>>
           /\ \A m \in 1 .. Len(mesh.indices) : mesh.indices[m] < Len(mesh.vertices)

\* build_mesh returned a mesh with the quads of two voxels that emit
\* different numbers of quads
C18_Witness ==
    /\ last.op = "build_mesh"
    /\ last.loc = SlabPack
    /\ At(loaded_chunks[last.pos].contents, <<0, 0, 0>>) = IdOf(SlabPack, "stone.toml")
    /\ At(loaded_chunks[last.pos].contents, <<1, 0, 0>>) = IdOf(SlabPack, "cactus.toml")
    /\ Len(arcs[last.ret].vertices) = 4 * (6 + 2)
    /\ Len(arcs[last.ret].indices) = 6 * (6 + 2)

\* quad q of a side of the block of voxel v, moved by the voxel offset alone
LocalQuadAt(pack, contents, v, side, q) ==
    [m \in 1 .. 4 |->
        [PackBlockIn(pack, At(contents, v)).mesh[side][q][m]
            EXCEPT !.xyz = IVecAdd(@, v)]]

\* C19: the vertex positions of a rebuilt mesh are chunk-local: every quad
\* of the mesh is a quad of the block of some voxel whose corners are moved
\* by the voxel offset (i, j, k) and by nothing else, so that the chunk
\* coordinate does not show in the vertices.
C19_VerticesChunkLocal ==
    [][Rebuilt =>
         LET pack == last'.loc
             contents == loaded_chunks[last'.pos].contents
         IN  \A quad \in MeshQuads(arcs'[last'.ret]) :
                \E v \in Axis \X Axis \X Axis, side \in Side :
                   \E q \in QuadsOf(pack, contents, v, side) :
                      quad = LocalQuadAt(pack, contents, v, side, q)]_vars

\* C20: a mesh handle returned by build_mesh is immutable: whatever place
\* or build_mesh does later, a rebuild that replaces the cache entry of the
\* same coordinate included, every mesh handed out earlier keeps its nonce,
\* its vertices and its indices.
C20_HandleImmutable ==
    [][\A h \in 1 .. Len(arcs) :
          /\ h <= Len(arcs')
          /\ arcs'[h].nonce = arcs[h].nonce
          /\ arcs'[h].vertices = arcs[h].vertices
          /\ arcs'[h].indices = arcs[h].indices]_vars

\* a rebuild has replaced the cache entry of a coordinate whose earlier
\* mesh, with other vertices, is still there
C20_Witness ==
    /\ last.op = "build_mesh"
    /\ Len(arcs) = 2
    /\ last.ret = 2
    /\ cached_meshes[last.pos] = 2
    /\ arcs[1].nonce # arcs[2].nonce
    /\ arcs[1].vertices # arcs[2].vertices
    /\ arcs[1].vertices # <<>>

---------------------------------------------------------------------------
(* The focal chunk of World::build_meshes *)

MaxStepsFocal == 3

\* focal points with components -1, -32 and -33 (in units of the modelled
\* edge), on their own and together
FocalLocations ==
    {<<-1, 0, 0>>, <<0, -Edge, 0>>, <<0, 0, -Edge - 1>>, <<-1, -Edge, -Edge - 1>>,
     <<Edge, 0, 0>>}

FocalPositions == {<<0, 0, 0>>, <<-1, 0, 0>>, <<0, 0, -1>>, <<0, 0, -2>>, <<-1, -1, -2>>}

FocalRadii == {1, 2}

InitFocal == Start /\ fuel = MaxStepsFocal

NextFocal ==
    \/ \E pos \in FocalPositions : InsertDefault(pos)
    \/ \E location \in FocalLocations, distance \in FocalRadii :
          BuildMeshes(location, distance)

\* a World whose chunks lie around the origin, meshed around focal points
\* with negative components
SpecFocal == InitFocal /\ [][NextFocal]_vars

\* the chunk coordinate c with 32 c <= p < 32 (c + 1)
ChunkOf(p) == CHOOSE c \in -3 .. 3 : Edge * c <= p /\ p < Edge * (c + 1)

\* C21: build_meshes measures distances from the chunk that contains the
\* focal position, floor(p / 32) on each axis: component -1 lies in chunk
\* -1, -32 in chunk -1 and -33 in chunk -2.
C21_FocalChunkIsFloor ==
    last.op = "build_meshes" =>
        /\ \A a \in 1 .. 3 :
              /\ last.loc[a] = -1 => ChunkOf(last.loc[a]) = -1
              /\ last.loc[a] = -Edge => ChunkOf(last.loc[a]) = -1
              /\ last.loc[a] = -Edge - 1 => ChunkOf(last.loc[a]) = -2
        /\ \A pos \in DOMAIN loaded_chunks :
              (\E n \in 1 .. Len(last.ret.yielded) : last.ret.yielded[n][1] = pos)
              <=> SquaredDistance(<<ChunkOf(last.loc[1]), ChunkOf(last.loc[2]),
                                    ChunkOf(last.loc[3])>>, pos)
                     < last.ret.distance * last.ret.distance

\* around the focal point (-1, -32, -33) with radius 1 the chunk
\* (-1, -1, -2) that contains it was yielded and the chunk at the origin,
\* also loaded, was not
C21_Witness ==
    /\ last.op = "build_meshes"
    /\ last.loc = <<-1, -Edge, -Edge - 1>>
    /\ last.ret.distance = 1
    /\ <<0, 0, 0>> \in DOMAIN loaded_chunks
    /\ Len(last.ret.yielded) = 1
    /\ last.ret.yielded[1][1] = <<-1, -1, -2>>

---------------------------------------------------------------------------
(* Terrain: chunks generated at the floor, at the surface and at the top of
   the generated range *)

MaxStepsTerrain == 3

\* chunk coordinates whose layers lie below the floor (z < -128), at it,
\* around the surface of the column at (0, 0), at the top of the range
\* (z = 30, 31) and above it
TerrainPositions ==
    {<<0, 0, (-128 \div Edge) - 1>>, <<1, 0, (-128 \div Edge) - 1>>, <<0, 0, -128 \div Edge>>,
     <<0, 0, 0>>, <<0, 0, 2 \div Edge>>, <<0, 0, 31 \div Edge>>, <<0, 0, (31 \div Edge) + 1>>}

InitTerrain == Start /\ fuel = MaxStepsTerrain

NextTerrain == \E pos \in TerrainPositions : Generate(pos, pack_names)

\* chunks are generated over the whole height of the world
SpecTerrain == InitTerrain /\ [][NextTerrain]_vars

\* the world height of layer k of the chunk at pos
WorldZ(pos, k) == Edge * pos[3] + k

\* C22: in a generated chunk every voxel whose world z is at or below the
\* floor (z <= -128) holds bedrock, in chunks that lie entirely below the
\* floor as well.
C22_FloorIsBedrock ==
    last.op = "generate" =>
        \A k \in Axis, j \in Axis, i \in Axis :
           WorldZ(last.pos, k) <= -128
           => loaded_chunks[last.pos].contents[k][j][i] = Lookup("bedrock.toml")

---------------------------------------------------------------------------
(* The linear remap of the noise value and the draw from the surface table,
   applied to values of their whole ranges *)

MaxStepsHeights == 3

\* combined noise values in millionths: the ends of [-1, 1], the middle and
\* values between
NoiseValues == {-1000000, -999000, -500000, -1, 0, 1, 250000, 500000, 999000, 1000000}

\* values of rand.next_u32(): every value of the bits 5 .. 9 that the draw
\* reads, with low and high bits set or clear
SurfaceRands == {32 * t + low + 1024 * high : t \in 0 .. 31, low \in {0, 31}, high \in {0, 5}}

\* h = (val * (max_h - min_h) + min_h) as i32
RemapCall(val) ==
    /\ fuel > 0
    /\ last' = Call("remap", <<>>, <<>>, 0, U32One, [val |-> val, h |-> Remap(val)])
    /\ fuel' = fuel - 1
    /\ UNCHANGED <<NONCE, loaded_chunks, cached_meshes, arcs, MESHING_TIMES, tchunk, tpc,
                   issued, genlog, frontend>>

\* the branch z == h of generate for a value of the random number
PickSurface(rand) ==
    /\ fuel > 0
    /\ last' = Call("pick_surface", <<>>, <<>>, PickBlock(GenerateIds, 0, 0, rand), U32One,
                    [rand |-> rand, index |-> SurfaceIndex(rand)])
    /\ fuel' = fuel - 1
    /\ UNCHANGED <<NONCE, loaded_chunks, cached_meshes, arcs, MESHING_TIMES, tchunk, tpc,
                   issued, genlog, frontend>>

InitHeights == Start /\ fuel = MaxStepsHeights

NextHeights ==
    \/ \E val \in NoiseValues : RemapCall(val)
    \/ \E rand \in SurfaceRands : PickSurface(rand)

SpecHeights == InitHeights /\ [][NextHeights]_vars

\* C23: for a voxel at the column height the block comes from the 32-entry
\* table, and each of its 32 positions is drawn for some value of the
\* random number; the block picked is the entry at the position drawn.
C23_EveryEntryDrawn ==
    last.op = "pick_surface" =>
        /\ Len(Surface(GenerateIds)) = 32
        /\ last.block = Surface(GenerateIds)[last.ret.index + 1]
        /\ \A t \in 0 .. 31 : \E rand \in SurfaceRands : SurfaceIndex(rand) = t

\* C24: for every combined noise value in [-1, 1] the column height lies
\* in [-30, 30], with -1 mapped to -30 and 1 mapped to 30.
C24_HeightWithinRange ==
    last.op = "remap" =>
        /\ -30 <= last.ret.h /\ last.ret.h <= 30
        /\ last.ret.val = -1000000 => last.ret.h = -30
        /\ last.ret.val = 1000000 => last.ret.h = 30

---------------------------------------------------------------------------
(* The vertical range of generate *)

\* the state of a random stream after n more values, for n voxels of a
\* row, n rows and n layers
RECURSIVE AfterVoxels(_, _)
AfterVoxels(state, n) ==
    Let(state, LAMBDA st : IF n = 0 THEN st ELSE AfterVoxels(RngNext(st), n - 1))

RECURSIVE AfterRows(_, _)
AfterRows(state, n) ==
    Let(state, LAMBDA st : IF n = 0 THEN st ELSE AfterRows(AfterVoxels(st, Edge), n - 1))

RECURSIVE AfterLayers(_, _)
AfterLayers(state, n) ==
    Let(state, LAMBDA st : IF n = 0 THEN st ELSE AfterLayers(AfterRows(st, Edge), n - 1))

InValidRange(z) == -128 <= z /\ z < 31

\* the layers of the valid range below layer k of the chunk at pos
LayersBelow(pos, k) == Cardinality({kk \in Axis : kk < k /\ InValidRange(WorldZ(pos, kk))})

\* the value of the stream seeded for the chunk at pos that voxel (i, j, k)
\* gets when values are drawn for the voxels of the valid range only
DrawFor(pos, i, j, k) ==
    AfterVoxels(AfterRows(AfterLayers(RngSeed(SeedOf(pos)), LayersBelow(pos, k)), j), i + 1)

\* C25: generate leaves a voxel whose world z is outside [-128, 31) at 0
\* and draws no random value for it; every voxel of the chunk inside the
\* range is generated, with the next value of the stream of the voxels
\* inside the range.
C25_SkipOnlyOutOfRange ==
    last.op = "generate" =>
        \A k \in Axis, j \in Axis, i \in Axis :
           loaded_chunks[last.pos].contents[k][j][i] =
              IF InValidRange(WorldZ(last.pos, k))
              THEN PickBlock(GenerateIds, WorldZ(last.pos, k),
                             Height(Edge * last.pos[1] + i, Edge * last.pos[2] + j),
                             DrawFor(last.pos, i, j, k))
              ELSE 0

\* a chunk was generated whose layers below z = 31 are inside the range,
\* and one with terrain above the floor, after a chunk below the floor
C25_Witness ==
    /\ last.op = "generate"
    /\ \E pos \in DOMAIN loaded_chunks :
          /\ InValidRange(WorldZ(pos, 0))
          /\ ~InValidRange(WorldZ(pos, Edge - 1))
    /\ \E pos \in DOMAIN loaded_chunks : \A k \in Axis : ~InValidRange(WorldZ(pos, k))
    /\ InValidRange(WorldZ(last.pos, 0))
    /\ loaded_chunks[last.pos].contents # ZeroContents

---------------------------------------------------------------------------
(* The event loop of main: Select and Place on a generated world *)

MaxStepsMain == 4

\* the remainder of the truncating division: isize % isize
rem_truncated(a, n) == a - n * TruncDiv(a, n)

\* a variant of rem_euclid that keeps the sign of the truncating remainder
rem_euclid_signed(a, n) == rem_truncated(a, n)

\* isize::rem_euclid: the truncating remainder, moved into [0, n) when it
\* is negative
rem_euclid(a, n) == IF rem_truncated(a, n) < 0 THEN rem_truncated(a, n) + n ELSE rem_truncated(a, n)

\* isize as i16
AsI16(n) == ((n + 32768) % 65536) - 32768

\* scroll deltas dy, in tenths of a line
ScrollDeltas == {-270, -140, -15, -10, -5, 5, 10, 25, 140}

\* the chunks main generates before the loop starts
MainPositions == {<<0, 0, 0>>, <<0, 0, 2 \div Edge>>}

\* the cells poss[1..] of a reach ray, as as_ivec3 gives them
Rays ==
    {<<<<0, 0, Edge - 1>>>>,
     <<<<0, 0, 3>>, <<0, 0, 2>>>>,
     <<<<0, 0, 3>>, <<1, 0, 3>>, <<1, 0, 0>>>>,
     <<<<1, 1, 0>>>>}

\* Action::Select: count = dy as isize;
\* selected_item = (selected_item + count).rem_euclid(pack.blocks.len())
Select(dy) ==
    /\ fuel > 0
    /\ selected_item' = rem_euclid(selected_item + TruncDiv(dy, 10), Len(pack_names))
    /\ last' = Call("select", <<>>, <<>>, selected_item', U32One, dy)
    /\ fuel' = fuel - 1
    /\ UNCHANGED <<NONCE, loaded_chunks, cached_meshes, arcs, MESHING_TIMES, tchunk, tpc,
                   issued, genlog, vertex_buffers, keys_pressed, emitted>>

\* the loop of Action::Place from cell n of the ray on: the first cell whose
\* block is not 0 is hit; a cell in a chunk that is not loaded makes
\* get(&x).unwrap() panic
RECURSIVE FirstHit(_, _)
FirstHit(ray, n) ==
    IF n > Len(ray) THEN [kind |-> "miss", loc |-> <<>>, x |-> <<>>]
    ELSE LET loc == ray[n]
             x == <<Shr(loc[1], EdgeBits), Shr(loc[2], EdgeBits), Shr(loc[3], EdgeBits)>>
         IN  IF x \notin DOMAIN loaded_chunks THEN [kind |-> "panic", loc |-> loc, x |-> x]
             ELSE IF Index(loaded_chunks[x], loc) # 0 THEN [kind |-> "hit", loc |-> loc, x |-> x]
             ELSE FirstHit(ray, n + 1)

\* Action::Place: the chunk x of the hit cell gets
\* place(loc + IVec3::Z, selected_item as i16)
MainPlace(ray) ==
    \E r \in {FirstHit(ray, 1)} :
       IF r.kind = "hit"
       THEN Place(r.x, IVecAdd(r.loc, <<0, 0, 1>>), AsI16(selected_item))
       ELSE /\ fuel > 0
            /\ last' = Call(IF r.kind = "panic" THEN "place_panic" ELSE "place_miss",
                            r.x, r.loc, AsI16(selected_item), U32One, 0)
            /\ fuel' = IF r.kind = "panic" THEN 0 ELSE fuel - 1
            /\ UNCHANGED <<NONCE, loaded_chunks, cached_meshes, arcs, MESHING_TIMES, tchunk,
                           tpc, issued, genlog, frontend>>

InitMain == Start /\ fuel = MaxStepsMain

NextMain ==
    \/ \E pos \in MainPositions : Generate(pos, pack_names)
    \/ \E dy \in ScrollDeltas : Select(dy)
    \/ \E ray \in Rays : MainPlace(ray)
    \/ \E pos \in MainPositions : BuildMesh(pos)

\* chunks are generated, the selection is scrolled, blocks are placed along
\* a reach ray and the chunks are meshed
SpecMain == InitMain /\ [][NextMain]_vars

\* C26: after any sequence of generation, Select and Place the selected
\* item is an index of the Pack under every scroll delta, every cell of
\* every loaded chunk holds an index of the Pack, and build_mesh never
\* fails on an identifier outside the Pack.
C26_CellsIndexThePack ==
    /\ 0 <= selected_item /\ selected_item < Len(pack_names)
    /\ \A pos \in DOMAIN loaded_chunks : \A k \in Axis, j \in Axis, i \in Axis :
          /\ 0 <= loaded_chunks[pos].contents[k][j][i]
          /\ loaded_chunks[pos].contents[k][j][i] < Len(pack_names)
    /\ last.op # "panic"

\* after a scroll back from item 0 the last entry of the Pack was placed
\* into generated terrain and the chunk was meshed
C26_Witness ==
    /\ last.op = "build_mesh"
    /\ last.prev_op = "place"
    /\ selected_item = Len(pack_names) - 1
    /\ \E k \in Axis, j \in Axis, i \in Axis :
          loaded_chunks[last.pos].contents[k][j][i] = Len(pack_names) - 1

\* C27: Place writes the selected block into the loaded chunk that
\* contains the target cell, the hit cell plus one in z: the chunk written
\* is the one at floor(target / 32), also when the hit cell lies in the top
\* layer of its chunk, and the cell written is the target cell.
C27_PlaceWritesTargetChunk ==
    [][(CallStep /\ last'.op = "place")
       => LET target == last'.loc
              home == <<ChunkOf(target[1]), ChunkOf(target[2]), ChunkOf(target[3])>>
          IN  /\ last'.pos = home
              /\ home \in DOMAIN loaded_chunks'
              /\ Index(loaded_chunks'[home], target) = last'.block]_vars

---------------------------------------------------------------------------
(* graphics/render/world.rs and main.rs: the vertex buffers of the renderer *)

MaxStepsRedraw == 5

\* the chunks of the World and the camera positions of the redraws
RedrawPositions == {<<0, 0, 0>>, <<2, 0, 0>>}
RedrawLocations == {<<0, 0, 0>>, <<2 * Edge, 0, 0>>}
RedrawDistance == 2

\* WorldRenderer::add_vertices: self.vertex_buffers after the call
add_vertices(buffers, location, mesh) ==
    IF location \in DOMAIN buffers /\ buffers[location].nonce = mesh.nonce
    THEN buffers
    ELSE IF mesh.vertices = <<>>
    THEN buffers
    ELSE (location :> [nonce |-> mesh.nonce, vertex_buffer |-> mesh.vertices,
                       index_buffer |-> mesh.indices]) @@ buffers

\* WorldRenderer::remove_vertices: the keys at the distance or beyond it
\* from the chunk of location are removed
remove_vertices(buffers, location, distance) ==
    [l \in {loc \in DOMAIN buffers : InRange(location, loc, distance)} |-> buffers[l]]

\* the body of the for loop of the redraw, run over the pairs yielded by
\* build_meshes
RECURSIVE AddYielded(_, _, _, _)
AddYielded(buffers, meshes, yielded, n) ==
    Let(buffers, LAMBDA b :
        IF n > Len(yielded) THEN b
        ELSE AddYielded(add_vertices(b, yielded[n][1], meshes[yielded[n][2]]),
                        meshes, yielded, n + 1))

\* Event::RedrawRequested (main.rs:250-257): every mesh yielded by
\* build_meshes is handed to add_vertices, then remove_vertices is called
Redraw(location, distance) ==
    /\ fuel > 0
    /\ \E order \in IterationOrders({pos \in DOMAIN loaded_chunks :
                                        InRange(location, pos, distance)}) :
          \E r \in {MapBuild(loaded_chunks, order, 1,
                             [m |-> [cached_meshes |-> cached_meshes, arcs |-> arcs,
                                     MESHING_TIMES |-> MESHING_TIMES],
                              yielded |-> <<>>])} :
             /\ cached_meshes' = r.m.cached_meshes
             /\ arcs' = r.m.arcs
             /\ MESHING_TIMES' = r.m.MESHING_TIMES
             /\ vertex_buffers' =
                   remove_vertices(AddYielded(vertex_buffers, r.m.arcs, r.yielded, 1),
                                   location, distance)
             /\ last' = Call("redraw", <<>>, location, 0, U32One,
                             [distance |-> distance, yielded |-> r.yielded])
    /\ fuel' = fuel - 1
    /\ UNCHANGED <<NONCE, loaded_chunks, tchunk, tpc, issued, genlog, selected_item,
                   keys_pressed, emitted>>

InitRedraw == Start /\ fuel = MaxStepsRedraw

NextRedraw ==
    \/ \E pos \in RedrawPositions : InsertDefault(pos)
    \/ \E pos \in RedrawPositions, block \in PlacedBlocks : Place(pos, Origin, block)
    \/ \E location \in RedrawLocations : Redraw(location, RedrawDistance)

\* chunks are created and changed between the redraws of a camera that moves
SpecRedraw == InitRedraw /\ [][NextRedraw]_vars

\* C28: after add_vertices(location, mesh) has returned, the buffers stored
\* for location carry the nonce of the submitted mesh, or no buffers are
\* stored for location; also when the submitted mesh is empty.
C28_NoStaleBuffers ==
    last.op = "redraw" =>
        \A n \in 1 .. Len(last.ret.yielded) :
            LET location == last.ret.yielded[n][1]
                mesh == arcs[last.ret.yielded[n][2]]
            IN  location \in DOMAIN vertex_buffers
                    => vertex_buffers[location].nonce = mesh.nonce

---------------------------------------------------------------------------
(* input.rs: InputHandler::handle_window on keyboard events *)

MaxStepsInput == 5

\* the keys of the events: F1 has no binding, Tab is bound when pressed only
Keys == {"W", "Space", "Tab", "F1"}
ElementState == {"Pressed", "Released"}

\* Action::default()
Nop == [tag |-> "Nop", direction |-> "None"]

\* self.bindings.get(&input).map(Action::clone).unwrap_or_default() with
\* the bindings main hands to InputHandler::from
Binding(input) ==
    CASE input = <<"Press", "Tab">> -> [tag |-> "Fullscreen", direction |-> "None"]
      [] input = <<"Press", "W">> -> [tag |-> "Walk", direction |-> "Forward"]
      [] input = <<"Press", "Space">> -> [tag |-> "Walk", direction |-> "Up"]
      [] input = <<"Release", "W">> -> [tag |-> "Stop", direction |-> "Forward"]
      [] input = <<"Release", "Space">> -> [tag |-> "Stop", direction |-> "Up"]
      [] OTHER -> Nop

\* a variant of handle_window that follows the key repeat of the system:
\* every Pressed event yields the action bound to the key
handle_window_repeating(keys, virtual_keycode, state) ==
    LET pressed == virtual_keycode \in keys
    IN  IF state = "Pressed"
        THEN [keys_pressed |-> keys \cup {virtual_keycode},
              action |-> Binding(<<"Press", virtual_keycode>>)]
        ELSE IF state = "Released" /\ pressed
        THEN [keys_pressed |-> keys \ {virtual_keycode},
              action |-> Binding(<<"Release", virtual_keycode>>)]
        ELSE [keys_pressed |-> keys, action |-> Nop]

\* handle_window(WindowEvent::KeyboardInput { virtual_keycode, state }):
\* self.keys_pressed after the call and the action returned
handle_window(keys, virtual_keycode, state) ==
    LET pressed == virtual_keycode \in keys
    IN  IF state = "Pressed" /\ ~pressed
        THEN [keys_pressed |-> keys \cup {virtual_keycode},
              action |-> Binding(<<"Press", virtual_keycode>>)]
        ELSE IF state = "Released" /\ pressed
        THEN [keys_pressed |-> keys \ {virtual_keycode},
              action |-> Binding(<<"Release", virtual_keycode>>)]
        ELSE [keys_pressed |-> keys, action |-> Nop]

\* Event::WindowEvent { event: KeyboardInput, .. } (main.rs:279): the action
\* returned is the one the event loop acts on
KeyboardInput(virtual_keycode, state) ==
    /\ fuel > 0
    /\ \E r \in {handle_window(keys_pressed, virtual_keycode, state)} :
          /\ keys_pressed' = r.keys_pressed
          /\ emitted' = Append(emitted, r.action)
          /\ last' = Call("handle_window", <<>>, <<>>, 0, U32One,
                          [key |-> virtual_keycode, state |-> state, action |-> r.action])
    /\ fuel' = fuel - 1
    /\ UNCHANGED <<NONCE, loaded_chunks, cached_meshes, arcs, MESHING_TIMES, tchunk, tpc,
                   issued, genlog, selected_item, vertex_buffers>>

InitInput == Start /\ fuel = MaxStepsInput

NextInput == \E key \in Keys, state \in ElementState : KeyboardInput(key, state)

\* keyboard events arrive in any order, repeated and unmatched ones included
SpecInput == InitInput /\ [][NextInput]_vars

\* the number of actions with the tag and the direction among the first n
\* returned
RECURSIVE Emitted(_, _, _)
Emitted(tag, d, n) ==
    IF n = 0 THEN 0
    ELSE Emitted(tag, d, n - 1)
            + (IF emitted[n] = [tag |-> tag, direction |-> d] THEN 1 ELSE 0)

Direction3 == {"Forward", "Up"}

\* Walk(d) and Stop(d) alternate in the actions returned, Walk(d) first
Alternating ==
    \A d \in Direction3 :
        \A n \in 0 .. Len(emitted) :
            /\ Emitted("Walk", d, n) - Emitted("Stop", d, n) \in {0, 1}
            /\ n > 0 /\ emitted[n].direction = d =>
                  IF emitted[n].tag = "Walk"
                  THEN Emitted("Walk", d, n - 1) = Emitted("Stop", d, n - 1)
                  ELSE Emitted("Walk", d, n - 1) = Emitted("Stop", d, n - 1) + 1

\* the action bound to Press(key) is returned only for a key that was not
\* held, the action bound to Release(key) only for a key that was held
OnlyOnChange ==
    (CallStep /\ last'.op = "handle_window" /\ last'.ret.action # Nop)
        => LET key == last'.ret.key
           IN  \/ /\ last'.ret.action = Binding(<<"Press", key>>)
                  /\ last'.ret.state = "Pressed"
                  /\ key \notin keys_pressed
                  /\ key \in keys_pressed'
               \/ /\ last'.ret.action = Binding(<<"Release", key>>)
                  /\ last'.ret.state = "Released"
                  /\ key \in keys_pressed
                  /\ key \notin keys_pressed'

\* C29: handle_window returns the action bound to Press(key) only when the
\* key is not held and the action bound to Release(key) only when it is
\* held; for each direction d the Walk(d) and Stop(d) returned alternate,
\* Walk(d) first, and the Walk(d) outnumber the Stop(d) by 0 or 1.
C29_PressReleaseAlternate == [][OnlyOnChange]_vars /\ []Alternating

\* a Pressed event repeated for a held key and an unmatched Released event
\* both returned Nop, around a Walk and its Stop
C29_Witness ==
    /\ Len(emitted) >= 4
    /\ \E a, b, c, e \in 1 .. Len(emitted) :
          /\ a < b /\ b < c /\ c < e
          /\ emitted[a] = [tag |-> "Walk", direction |-> "Forward"]
          /\ emitted[b] = Nop
          /\ emitted[c] = [tag |-> "Stop", direction |-> "Forward"]
          /\ emitted[e] = Nop
    /\ last.op = "handle_window" /\ last.ret.key = "W" /\ last.ret.state = "Released"
    /\ keys_pressed = {}

---------------------------------------------------------------------------
(* assets/mod.rs: the cells of the texture atlas *)

MaxStepsAtlas == 2
MaxTiles == 9

CELL_SIZE == 16
N_MIPS == 5

\* usize::next_power_of_two: the smallest power of two >= n
RECURSIVE PowerOfTwoFrom(_, _)
PowerOfTwoFrom(p, n) == IF p >= n THEN p ELSE PowerOfTwoFrom(2 * p, n)

next_power_of_two(n) == PowerOfTwoFrom(1, n)

\* usize::isqrt: the square root rounded down
isqrt(n) == CHOOSE r \in 0 .. n : r * r <= n /\ (r + 1) * (r + 1) > n

\* let width_cells = { let num_cells = tile_names.len().next_power_of_two();
\* num_cells.isqrt() as u32 }
width_cells(len) == isqrt(next_power_of_two(len))

\* open_tiles: the atlas of a mip level is width x width pixels, and tile idx
\* is copied to (x, y); imageops::replace clips what falls outside
TileAt(len, idx, mip_lvl) ==
    [width |-> Shr(CELL_SIZE, mip_lvl) * width_cells(len),
     size |-> Shr(CELL_SIZE, mip_lvl),
     x |-> Shr(CELL_SIZE, mip_lvl) * (idx % width_cells(len)),
     y |-> Shr(CELL_SIZE, mip_lvl) * (idx \div width_cells(len))]

\* open_blocks: the cell (s, t) added to the uv of a face of tile idx
CellOf(len, idx) ==
    [s |-> idx % width_cells(len), t |-> idx \div width_cells(len)]

\* open_tiles(root) on a directory of len tiles: every tile is copied into
\* every mip level
OpenTiles(len) ==
    /\ fuel > 0
    /\ last' = Call("open_tiles", <<>>, <<>>, 0, U32One,
                    [len |-> len, width_cells |-> width_cells(len),
                     tiles |-> [idx \in 0 .. len - 1 |->
                                   [mip_lvl \in 0 .. N_MIPS - 1 |-> TileAt(len, idx, mip_lvl)]],
                     cells |-> [idx \in 0 .. len - 1 |-> CellOf(len, idx)]])
    /\ fuel' = fuel - 1
    /\ UNCHANGED <<NONCE, loaded_chunks, cached_meshes, arcs, MESHING_TIMES, tchunk, tpc,
                   issued, genlog, frontend>>

\* open_blocks(root, tile_names) meets a face whose tile is the idx-th name
OpenBlocksFace(len, idx) ==
    /\ fuel > 0
    /\ idx < len
    /\ last' = Call("open_blocks", <<>>, <<>>, 0, U32One,
                    [len |-> len, width_cells |-> width_cells(len),
                     tiles |-> [i \in {idx} |->
                                   [mip_lvl \in 0 .. N_MIPS - 1 |-> TileAt(len, i, mip_lvl)]],
                     cells |-> [i \in {idx} |-> CellOf(len, i)]])
    /\ fuel' = fuel - 1
    /\ UNCHANGED <<NONCE, loaded_chunks, cached_meshes, arcs, MESHING_TIMES, tchunk, tpc,
                   issued, genlog, frontend>>

InitAtlas == Start /\ fuel = MaxStepsAtlas

NextAtlas ==
    \/ \E len \in 1 .. MaxTiles : OpenTiles(len)
    \/ \E len \in 1 .. MaxTiles, idx \in 0 .. MaxTiles - 1 : OpenBlocksFace(len, idx)

\* packs of 1 .. MaxTiles tiles are opened
SpecAtlas == InitAtlas /\ [][NextAtlas]_vars

\* C30: for every number n >= 1 of tiles, every tile idx < n is given the
\* cell (idx % w, idx / w) with w = isqrt(next_power_of_two(n)), the cell
\* lies inside the w x w atlas (idx / w < w), no tile is placed outside the
\* atlas image, and no two tiles share a cell.
C30_CellsInsideAtlas ==
    last.op \in {"open_tiles", "open_blocks"} =>
        LET r == last.ret
            w == r.width_cells
        IN  /\ w * w <= next_power_of_two(r.len) /\ (w + 1) * (w + 1) > next_power_of_two(r.len)
            /\ \A idx \in DOMAIN r.cells :
                  /\ r.cells[idx] = [s |-> idx % w, t |-> idx \div w]
                  /\ r.cells[idx].s < w /\ r.cells[idx].t < w
                  /\ \A mip_lvl \in 0 .. N_MIPS - 1 :
                        LET tile == r.tiles[idx][mip_lvl]
                        IN  /\ tile.x + tile.size <= tile.width
                            /\ tile.y + tile.size <= tile.width
            /\ \A a, b \in DOMAIN r.cells : r.cells[a] = r.cells[b] => a = b

====
